---- MODULE Spec2Model ----
(***************************************************************************)
(* AC Protect server: rule evaluation engine, run bookkeeping and          *)
(* notification gating (server/orchestrator.py, server/classes/rules.py,   *)
(* server/rules/*.py, server/db/bq.py, server/services/email.py).          *)
(*                                                                         *)
(* Time is counted in ticks.  A second has TicksPerSec ticks, so that the  *)
(* sub-second part of datetime.now() that str()/strptime drop is visible.  *)
(* A version string 'X.Y.Z' is the sequence of its '.'-separated parts,    *)
(* each part the sequence of its characters.                               *)
(***************************************************************************)
EXTENDS Integers, Sequences, FiniteSets, TLC

\* ------------------------------------------------------------------ bounds
TicksPerSec == 2
SecsPerDay == 1
MaxTime == 4
MaxRuns == 2
OrchMaxTime == 1
OrchMaxRuns == 1
MaxVersions == 3
MaxCalls == 2
DbMaxTime == 2
DbMaxCalls == 2
MaxItems == 2

\* ------------------------------------------------------- generic helpers
\* the lists over S of at most n elements
SeqsUpTo(S, n) == UNION {[1..k -> S] : k \in 0..n}

\* --------------------------------------------------------- version strings
Digits == {"0", "1", "2"}

Str1(c) == <<c>>

\* the version strings the analytics source may report, as part sequences
V_0_0_0 == <<Str1("0"), Str1("0"), Str1("0")>>
V_0_0_1 == <<Str1("0"), Str1("0"), Str1("1")>>
V_0_1_0 == <<Str1("0"), Str1("1"), Str1("0")>>
V_1_0_0 == <<Str1("1"), Str1("0"), Str1("0")>>
V_1_1_0 == <<Str1("1"), Str1("1"), Str1("0")>>
V_1_2_0 == <<Str1("1"), Str1("2"), Str1("0")>>
V_1_10_0 == <<Str1("1"), <<"1", "0">>, Str1("0")>>
V_2_0_0 == <<Str1("2"), Str1("0"), Str1("0")>>
V_10_0_0 == <<<<"1", "0">>, Str1("0"), Str1("0")>>
V_01_0_0 == <<<<"0", "1">>, Str1("0"), Str1("0")>>
V_1_0 == <<Str1("1"), Str1("0")>>
V_1_0_0_0 == <<Str1("1"), Str1("0"), Str1("0"), Str1("0")>>
V_alpha == <<Str1("1"), Str1("0"), <<"0", "-", "a">>>>
V_ver == <<<<"v", "e", "r">>>>
NoneStr == <<<<"N", "o", "n", "e">>>>

VersionPool ==
  {V_0_0_0, V_0_0_1, V_0_1_0, V_1_0_0, V_1_2_0, V_1_10_0, V_2_0_0, V_10_0_0,
   V_01_0_0, V_1_0, V_1_0_0_0, V_alpha, V_ver, NoneStr}

IsDigits(p) == Len(p) > 0 /\ \A i \in 1..Len(p) : p[i] \in Digits

\* re.match(r'^\d+\.\d+\.\d+$', version)
is_version(v) == Len(v) = 3 /\ \A i \in 1..3 : IsDigits(v[i])

DigitVal(c) == CASE c = "0" -> 0 [] c = "1" -> 1 [] c = "2" -> 2 [] OTHER -> 0

RECURSIVE PartVal(_)
PartVal(p) ==
  IF p = <<>> THEN 0
  ELSE PartVal(SubSeq(p, 1, Len(p) - 1)) * 10 + DigitVal(p[Len(p)])

DigitChr(d) == CASE d = 0 -> "0" [] d = 1 -> "1" [] d = 2 -> "2" [] d = 3 -> "3"
                 [] d = 4 -> "4" [] d = 5 -> "5" [] d = 6 -> "6" [] d = 7 -> "7"
                 [] d = 8 -> "8" [] OTHER -> "9"

RECURSIVE IntToPart(_)
IntToPart(n) ==
  IF n < 10 THEN <<DigitChr(n)>> ELSE IntToPart(n \div 10) \o <<DigitChr(n % 10)>>

HasLeadingZero(p) == Len(p) > 1 /\ p[1] = "0"

\* semantic_version.Version(v) for a string v that passed is_version:
\* a numeric triple, or ValueError on a leading zero
VersionRaises(v) == \E i \in 1..3 : HasLeadingZero(v[i])
VersionOf(v) == <<PartVal(v[1]), PartVal(v[2]), PartVal(v[3])>>

\* str(semantic_version.Version)
VersionStr(t) == <<IntToPart(t[1]), IntToPart(t[2]), IntToPart(t[3])>>

VerLess(a, b) ==
  \/ a[1] < b[1]
  \/ a[1] = b[1] /\ a[2] < b[2]
  \/ a[1] = b[1] /\ a[2] = b[2] /\ a[3] < b[3]

\* max(options) of SimpleSpec.select, None when nothing matches
SelectMax(S) ==
  IF S = {} THEN NoneStr
  ELSE VersionStr(CHOOSE m \in S : \A x \in S : x = m \/ VerLess(x, m))

ValidVersions(versions) ==
  {versions[i] : i \in {j \in 1..Len(versions) : is_version(versions[j])}}

Ok(v) == [raised |-> "", value |-> v]
Raise(e) == [raised |-> e, value |-> NoneStr]

find_latest_version(versions) ==
  LET valid == ValidVersions(versions) IN
  IF \E v \in valid : VersionRaises(v) THEN Raise("ValueError")
  ELSE Ok(SelectMax({VersionOf(v) : v \in valid} \ {<<0, 0, 0>>}))

find_previous_version(cur_ver, versions) ==
  LET valid == ValidVersions(versions) IN
  IF ~is_version(cur_ver) \/ VersionRaises(cur_ver) THEN Raise("ValueError")
  ELSE IF \E v \in valid : VersionRaises(v) THEN Raise("ValueError")
  ELSE Ok(SelectMax({t \in {VersionOf(v) : v \in valid} :
                        VerLess(t, VersionOf(cur_ver))}))

\* ------------------------------------------------------------------- state
VARIABLES
  now,         \* wall clock (datetime.now()), in ticks
  importTime,  \* moment server.classes.alerts was imported by this process
  runLog,      \* table last_trigger_log: rows (name, type, timestamp)
  alertsLog,   \* table alerts
  tbl,         \* the four collector tables
  pc,          \* position of orchestrator()
  idx,         \* index inside the current loop of orchestrator()
  overwrite,   \* local 'overwrite' of orchestrator()
  collectors,  \* list(config['collectors'].keys())
  outbox,      \* messages handed to the Gmail API
  runs,        \* orchestrator runs started so far
  trace,       \* steps of the current orchestrator run, in order
  last,        \* the last call and what it returned or raised
  calls        \* number of direct calls made

vars == <<now, importTime, runLog, alertsLog, tbl, pc, idx, overwrite,
          collectors, outbox, runs, trace, last, calls>>

\* ------------------------------------------------------------------- time
TicksPerDay == TicksPerSec * SecsPerDay

\* str(timestamp).split('.')[0] / strftime('%Y-%m-%d %H:%M:%S')
FloorSec(t) == (t \div TicksPerSec) * TicksPerSec

\* datetime.date of a moment, as a day number
DateOf(t) == t \div TicksPerDay

Some(v) == [some |-> TRUE, v |-> v]
Nothing == [some |-> FALSE, v |-> 0]

Max(S) == CHOOSE m \in S : \A x \in S : x <= m

\* ------------------------------------------------------------- BigQuery
\* rows of s satisfying a filter given as the set of accepted rows
Rows(s) == {s[i] : i \in 1..Len(s)}

\* BigQuery.update_last_run: one row (name, type, str(datetime.now()))
update_last_run(log, name, type_, t) ==
  Append(log, [name |-> name, type |-> type_, timestamp |-> t])

\* get_last_run with the type left out of the WHERE clause
get_last_run_any_type(log, name, type_) ==
  LET ts == {r.timestamp : r \in {x \in Rows(log) : x.name = name}}
  IN IF ts = {} THEN Nothing ELSE Some(FloorSec(Max(ts)))

\* BigQuery.get_last_run: ORDER BY timestamp DESC LIMIT 1, then
\* split('.')[0] drops the fraction of the second
get_last_run(log, name, type_) ==
  LET ts == {r.timestamp :
               r \in {x \in Rows(log) : x.name = name /\ x.type = type_}}
  IN IF ts = {} THEN Nothing ELSE Some(FloorSec(Max(ts)))

LookbackDays == 1

\* the WHERE clause of get_alerts_for_app_since_date_time: strftime drops the
\* fraction of date_time; without date_time, one day before now
SinceOf(date_time, t) ==
  IF date_time.some THEN FloorSec(date_time.v)
  ELSE FloorSec(t - LookbackDays * TicksPerDay)

\* the query with the app_id filter left out
get_alerts_for_app_since_date_time_any_app(alerts, app_id, date_time, t) ==
  SelectSeq([i \in 1..Len(alerts) |-> i],
            LAMBDA i : alerts[i].timestamp >= SinceOf(date_time, t))

\* (each selected row is given by its position in the table)
get_alerts_for_app_since_date_time(alerts, app_id, date_time, t) ==
  SelectSeq([i \in 1..Len(alerts) |-> i],
            LAMBDA i : /\ alerts[i].app_id = app_id
                       /\ alerts[i].timestamp >= SinceOf(date_time, t))

\* Alert.to_dict of every alert, appended to the alerts table
ToRow(a) == [app_id |-> a.app_id, rule_name |-> a.rule_name,
             trigger |-> a.trigger, trigger_value |-> a.trigger_value,
             alert_id |-> a.alert_id, timestamp |-> a.timestamp]

RECURSIVE MapToRow(_)
MapToRow(s) == IF s = <<>> THEN <<>> ELSE <<ToRow(Head(s))>> \o MapToRow(Tail(s))

\* write_alerts with the load job set to WRITE_TRUNCATE
write_alerts_truncate(alerts, new) == MapToRow(new)

write_alerts(alerts, new) == alerts \o MapToRow(new)

\* Rule.update_alerts_log: result and the alerts table afterwards.
\* ioFail says that the load job of write_to_table raises ClientError.
IsAlert(x) == x.class = "Alert"

\* update_alerts_log without the early return on an empty list
update_alerts_log_no_empty_return(alerts, triggered, ioFail) ==
  IF \E i \in 1..Len(triggered) : ~IsAlert(triggered[i])
    THEN [ret |-> "TypeError", log |-> alerts]
  ELSE IF ioFail THEN [ret |-> "ClientError", log |-> alerts]
  ELSE [ret |-> "True", log |-> write_alerts(alerts, triggered)]

\* update_alerts_log looking at the type of the first element only
update_alerts_log_first_only(alerts, triggered, ioFail) ==
  IF triggered = <<>> THEN [ret |-> "False", log |-> alerts]
  ELSE IF ~IsAlert(triggered[1])
    THEN [ret |-> "TypeError", log |-> alerts]
  ELSE IF ioFail THEN [ret |-> "ClientError", log |-> alerts]
  ELSE [ret |-> "True",
        log |-> write_alerts(alerts, SelectSeq(triggered, IsAlert))]

update_alerts_log(alerts, triggered, ioFail) ==
  IF triggered = <<>> THEN [ret |-> "False", log |-> alerts]
  ELSE IF \E i \in 1..Len(triggered) : ~IsAlert(triggered[i])
    THEN [ret |-> "TypeError", log |-> alerts]
  ELSE IF ioFail THEN [ret |-> "ClientError", log |-> alerts]
  ELSE [ret |-> "True", log |-> write_alerts(alerts, triggered)]

\* --------------------------------------------------------- record model
ANDROID_TEST_APP == "com.test.app"
IOS_TEST_APP == "1072235449"
COLLECTOR_ALERT_ID == "Connector"

GA4_TABLE_NAME == "collector_ga4"
GADS_TABLE_NAME == "collector_gads"
APP_STORE_TABLE_NAME == "collector_app_store"
PLAY_STORE_TABLE_NAME == "collector_play_store"
TableNames == {GA4_TABLE_NAME, GADS_TABLE_NAME, APP_STORE_TABLE_NAME,
               PLAY_STORE_TABLE_NAME}

\* str.lower() on the os names the sources use
Lower(s) == CASE s = "ANDROID" -> "android" [] s = "Android" -> "android"
              [] s = "IOS" -> "ios" [] s = "iOS" -> "ios" [] OTHER -> s

\* str.split('_') on the identifiers the model uses
Tok(s) == CASE s = "first_open" -> <<"first", "open">>
            [] s = "first_level" -> <<"first", "level">>
            [] s = "com.test_app" -> <<"com.test", "app">>
            [] s = "app_first" -> <<"app", "first">>
            [] OTHER -> <<s>>

\* GAdsCollector._get_os: the conversion action type split at '_'
gads_get_os(type) ==
  IF "ANDROID" \in Rows(type) THEN "ANDROID"
  ELSE IF "IOS" \in Rows(type) THEN "IOS" ELSE ""

\* _add_uid of both collectors: f'{os.lower()}_{property_id}_{event_name}'
add_uid(os, property_id, event_name) == <<Lower(os), property_id, event_name>>

\* a table as get_values_from_table returns it: None when the table is
\* missing or has no rows
NoTable == [some |-> FALSE, v |-> <<>>]
get_values_from_table(t) ==
  IF t.exists /\ t.rows # <<>> THEN [some |-> TRUE, v |-> t.rows] ELSE NoTable

\* BigQuery.write_to_table: WRITE_TRUNCATE when overwrite, else append
write_to_table(t, df, ow) ==
  [exists |-> TRUE, rows |-> IF ow THEN df ELSE t.rows \o df]

RECURSIVE Unique(_)
\* Series.unique(): first occurrences, in order
Unique(s) ==
  IF s = <<>> THEN <<>>
  ELSE LET r == Unique(SubSeq(s, 1, Len(s) - 1)) IN
       IF s[Len(s)] \in Rows(r) THEN r ELSE Append(r, s[Len(s)])

RECURSIVE SetToSeq(_)
\* list(set(...)): some order of the elements
SetToSeq(S) ==
  IF S = {} THEN <<>>
  ELSE LET x == CHOOSE y \in S : TRUE IN <<x>> \o SetToSeq(S \ {x})

\* ---------------------------------------------------- IntervalEventsRule
INTERVAL == 24

\* get_uids: uids of the ads rows of the monitored apps
get_uids(app_ids, df) == {r.uid : r \in {x \in Rows(df) : x.app_id \in app_ids}}

\* add_app_ids: pd.merge(ga4_df, gads_df[['app_id', 'uid']], on='uid')
RECURSIVE add_app_ids(_, _)
add_app_ids(gads_df, ga4_df) ==
  IF ga4_df = <<>> THEN <<>>
  ELSE LET g == Head(ga4_df)
           m == SelectSeq(gads_df, LAMBDA a : a.uid = g.uid)
       IN [i \in 1..Len(m) |->
             [property_id |-> g.property_id, os |-> g.os,
              app_version |-> g.app_version, event_name |-> g.event_name,
              uid |-> g.uid, date_added |-> g.date_added,
              app_id |-> m[i].app_id]]
          \o add_app_ids(gads_df, Tail(ga4_df))

RECURSIVE IntervalViolations_any_app(_, _)
\* the loop over rows without the test of app_id against self.app_ids
IntervalViolations_any_app(rows, app_ids) ==
  IF rows = <<>> THEN <<>>
  ELSE <<[event_name |-> Head(rows).event_name,
          app_id |-> Head(rows).app_id, interval |-> INTERVAL]>>
       \o IntervalViolations_any_app(Tail(rows), app_ids)

RECURSIVE IntervalViolations_once(_, _)
\* the loop over rows emitting each (event_name, app_id) once
IntervalViolations_once(rows, app_ids) ==
  IF rows = <<>> THEN <<>>
  ELSE LET rest == IntervalViolations_once(Tail(rows), app_ids)
           e == [event_name |-> Head(rows).event_name,
                 app_id |-> Head(rows).app_id, interval |-> INTERVAL]
       IN IF Head(rows).app_id \in app_ids /\ e \notin Rows(rest)
            THEN <<e>> \o rest ELSE rest

RECURSIVE IntervalViolations(_, _)
\* the loop of check_rule over rows: one IntervalEvent per row of a monitored app
IntervalViolations(rows, app_ids) ==
  IF rows = <<>> THEN <<>>
  ELSE (IF Head(rows).app_id \in app_ids
          THEN <<[event_name |-> Head(rows).event_name,
                  app_id |-> Head(rows).app_id, interval |-> INTERVAL]>>
          ELSE <<>>)
       \o IntervalViolations(Tail(rows), app_ids)

\* check_rule taking a missing analytics table for one without rows
interval_check_rule_ga4_as_empty(data, app_ids, t) ==
  IF ~data.gads.some THEN <<>>
  ELSE
    LET gads_data == data.gads.v
        yesterday == DateOf(t) - 1
        gads_uids == get_uids(app_ids, gads_data)
        ga4_1 == SelectSeq(data.ga4.v, LAMBDA r : r.uid \in gads_uids)
        ga4_2 == SelectSeq(ga4_1, LAMBDA r : r.date_added >= yesterday)
        ga4_3 == add_app_ids(gads_data, ga4_2)
        ga4_uids == {r.uid : r \in Rows(ga4_3)}
        rows == SelectSeq(gads_data, LAMBDA r : r.uid \notin ga4_uids)
    IN IntervalViolations(rows, app_ids)

\* check_rule with the lookback counted as 24 hours back from the moment
\* of the call instead of from yesterday's date
interval_check_rule_last_24_hours(data, app_ids, t) ==
  IF ~data.ga4.some THEN <<>>
  ELSE IF ~data.gads.some THEN <<>>
  ELSE
    LET gads_data == data.gads.v
        gads_uids == get_uids(app_ids, gads_data)
        ga4_1 == SelectSeq(data.ga4.v, LAMBDA r : r.uid \in gads_uids)
        ga4_2 == SelectSeq(ga4_1, LAMBDA r :
                             r.date_added * TicksPerDay >= t - TicksPerDay)
        ga4_3 == add_app_ids(gads_data, ga4_2)
        ga4_uids == {r.uid : r \in Rows(ga4_3)}
        rows == SelectSeq(gads_data, LAMBDA r : r.uid \notin ga4_uids)
    IN IntervalViolations(rows, app_ids)

\* IntervalEventsRule.check_rule at moment t
interval_check_rule(data, app_ids, t) ==
  IF ~data.ga4.some THEN <<>>
  ELSE IF ~data.gads.some THEN <<>>
  ELSE
    LET gads_data == data.gads.v
        yesterday == DateOf(t) - 1
        gads_uids == get_uids(app_ids, gads_data)
        ga4_1 == SelectSeq(data.ga4.v, LAMBDA r : r.uid \in gads_uids)
        ga4_2 == SelectSeq(ga4_1, LAMBDA r : r.date_added >= yesterday)
        ga4_3 == add_app_ids(gads_data, ga4_2)
        ga4_uids == {r.uid : r \in Rows(ga4_3)}
        rows == SelectSeq(gads_data, LAMBDA r : r.uid \notin ga4_uids)
    IN IntervalViolations(rows, app_ids)

\* the alert_id f-string: the '_'-separated pieces, and the version strings
AlertId(rule, app_id, event_name, tail, vers) ==
  [toks |-> <<rule>> \o Tok(app_id) \o Tok(event_name) \o tail, vers |-> vers]

\* create_alerts with the event name left out of the alert_id
RECURSIVE interval_create_alerts_no_event(_, _)
interval_create_alerts_no_event(rule_violations, ts) ==
  IF rule_violations = <<>> THEN <<>>
  ELSE LET event == Head(rule_violations) IN
    <<[class |-> "Alert", app_id |-> event.app_id,
       rule_name |-> "IntervalEventsRule",
       trigger |-> "Missing event for interval",
       trigger_value |-> [Event_Name |-> event.event_name,
                          Missing_for |-> INTERVAL],
       alert_id |-> [toks |-> <<"IntervalEventsRule">> \o Tok(event.app_id)
                              \o <<ToString(INTERVAL)>>,
                     vers |-> <<>>],
       timestamp |-> ts]>>
    \o interval_create_alerts_no_event(Tail(rule_violations), ts)

\* IntervalEventsRule.create_alerts; ts is the default of Alert.timestamp
RECURSIVE interval_create_alerts(_, _)
interval_create_alerts(rule_violations, ts) ==
  IF rule_violations = <<>> THEN <<>>
  ELSE LET event == Head(rule_violations) IN
    <<[class |-> "Alert", app_id |-> event.app_id,
       rule_name |-> "IntervalEventsRule",
       trigger |-> "Missing event for interval",
       trigger_value |-> [Event_Name |-> event.event_name,
                          Missing_for |-> INTERVAL],
       alert_id |-> AlertId("IntervalEventsRule", event.app_id,
                            event.event_name, <<ToString(INTERVAL)>>, <<>>),
       timestamp |-> ts]>>
    \o interval_create_alerts(Tail(rule_violations), ts)

\* ----------------------------------------------------- VersionEventsRule
STORE_LOOKBACK_DAYS == 7
RELEASE_BUFFER_DAYS == 1

VersionEvent(event_name, app_id, cur_ver, prev_ver) ==
  [event_name |-> event_name, app_id |-> app_id,
   cur_ver |-> cur_ver, prev_ver |-> prev_ver]

\* semantic_version.Version(s) accepts s (strings with a pre-release or
\* build suffix are outside the model's version pool)
SemverParses(v) == is_version(v) /\ ~VersionRaises(v)

\* get_versions: df['app_version'].unique().tolist()
get_versions(df) == Unique([i \in 1..Len(df) |-> df[i].app_version])

\* get_events_for_version
get_events_for_version(version, df) ==
  Unique([i \in 1..Len(SelectSeq(df, LAMBDA r : r.app_version = version)) |->
            SelectSeq(df, LAMBDA r : r.app_version = version)[i].event_name])

\* the difference taken the other way round: set(cur) - set(prev)
compare_events_between_versions_reversed(cur_ver, prev_ver, df) ==
  LET cur_ver_events == Rows(get_events_for_version(cur_ver, df))
      prev_ver_events == Rows(get_events_for_version(prev_ver, df))
      app_id == df[1].app_id
      missing_events == SetToSeq(cur_ver_events \ prev_ver_events)
  IN [i \in 1..Len(missing_events) |->
        VersionEvent(missing_events[i], app_id, cur_ver, prev_ver)]

\* compare_events_between_versions: list(set(prev) - set(cur))
compare_events_between_versions(cur_ver, prev_ver, df) ==
  LET cur_ver_events == Rows(get_events_for_version(cur_ver, df))
      prev_ver_events == Rows(get_events_for_version(prev_ver, df))
      app_id == df[1].app_id
      missing_events == SetToSeq(prev_ver_events \ cur_ver_events)
  IN [i \in 1..Len(missing_events) |->
        VersionEvent(missing_events[i], app_id, cur_ver, prev_ver)]

\* get_latest_versions_of_apps with idxmin in place of idxmax
get_latest_versions_of_apps_idxmin(apps_data, time_period) ==
  LET apps_recent == SelectSeq(apps_data, LAMBDA r : r.timestamp >= time_period)
      ids == {r.app_id : r \in Rows(apps_recent)}
      best(a) == LET mine == SelectSeq(apps_recent, LAMBDA r : r.app_id = a)
                     ts == {r.timestamp : r \in Rows(mine)}
                     top == CHOOSE m \in ts : \A x \in ts : m <= x
                 IN SelectSeq(mine, LAMBDA r : r.timestamp = top)[1]
      order == SetToSeq(ids)
  IN [i \in 1..Len(order) |-> best(order[i])]

\* get_latest_versions_of_apps: per app the row of greatest timestamp among
\* the rows not older than time_period
get_latest_versions_of_apps(apps_data, time_period) ==
  LET apps_recent == SelectSeq(apps_data, LAMBDA r : r.timestamp >= time_period)
      ids == {r.app_id : r \in Rows(apps_recent)}
      best(a) == LET mine == SelectSeq(apps_recent, LAMBDA r : r.app_id = a)
                     top == Max({r.timestamp : r \in Rows(mine)})
                 IN SelectSeq(mine, LAMBDA r : r.timestamp = top)[1]
      order == SetToSeq(ids)
  IN [i \in 1..Len(order) |-> best(order[i])]

\* get_conversion_events
get_conversion_events(data, app_ids) ==
  LET gads_uids == get_uids(app_ids, data.gads.v)
      ga4_conversion_events == SelectSeq(data.ga4.v, LAMBDA r : r.uid \in gads_uids)
  IN add_app_ids(data.gads.v, ga4_conversion_events)

RaiseV(e) == [raised |-> e, v |-> <<>>]
OkV(v) == [raised |-> "", v |-> v]

\* get_missing_events_app_store
get_missing_events_app_store(store, app_id, cur_ver) ==
  LET store_cur_ver == SelectSeq(store, LAMBDA r : r.app_id = app_id) IN
  IF store_cur_ver = <<>> THEN RaiseV("KeyError")
  ELSE LET store_ver_num == store_cur_ver[1].version IN
    IF ~SemverParses(store_ver_num) \/ ~SemverParses(cur_ver)
      THEN RaiseV("ValueError")
    ELSE IF VerLess(VersionOf(cur_ver), VersionOf(store_ver_num))
      THEN OkV(<<VersionEvent("first_open", app_id, store_ver_num, cur_ver)>>)
    ELSE OkV(<<>>)

\* get_missing_events_play_store
get_missing_events_play_store(store, app_id, cur_ver, app_conversion_events) ==
  LET store_cur_ver == SelectSeq(store, LAMBDA r : r.app_id = app_id) IN
  IF store_cur_ver = <<>> THEN RaiseV("KeyError")
  ELSE
    LET store_ver_time == store_cur_ver[1].timestamp
        store_ver_code == store_cur_ver[1].version
        cur_ver_data == SelectSeq(app_conversion_events,
                                  LAMBDA r : r.app_version = cur_ver)
        days == {r.date_added : r \in Rows(cur_ver_data)}
    IN IF days # {}
          /\ store_ver_time - RELEASE_BUFFER_DAYS * TicksPerDay
               > (CHOOSE d \in days : \A e \in days : d <= e) * TicksPerDay
         THEN OkV(<<VersionEvent("first_open", app_id, store_ver_code, cur_ver)>>)
         ELSE OkV(<<>>)

\* get_missing_events_ga4
get_missing_events_ga4(versions, cur_ver, app_conversion_events) ==
  LET prev_ver == find_previous_version(cur_ver, versions) IN
  IF prev_ver.raised # "" THEN RaiseV(prev_ver.raised)
  ELSE OkV(compare_events_between_versions(cur_ver, prev_ver.value,
                                           app_conversion_events))

\* get_app_missing_events
get_app_missing_events(app_id, conversion_events, stores_latest_versions) ==
  LET app_conversion_events ==
        SelectSeq(conversion_events, LAMBDA r : r.app_id = app_id)
      versions == get_versions(app_conversion_events)
      cur_ver == find_latest_version(versions)
      os == Lower(app_conversion_events[1].os)
      store_type == IF os = "ios" THEN "app_store" ELSE "play_store"
      store == stores_latest_versions[store_type]
  IN IF cur_ver.raised # "" THEN RaiseV(cur_ver.raised)
     ELSE IF store_type = "app_store" /\ store.some /\ store.v # <<>>
       THEN get_missing_events_app_store(store.v, app_id, cur_ver.value)
     ELSE IF store_type = "play_store" /\ store.some /\ store.v # <<>>
       THEN get_missing_events_play_store(store.v, app_id, cur_ver.value,
                                          app_conversion_events)
     ELSE get_missing_events_ga4(versions, cur_ver.value, app_conversion_events)

RECURSIVE VersionLoop(_, _, _)
\* the loop of check_rule over app_ids_list
VersionLoop(app_ids_list, conversion_events, stores) ==
  IF app_ids_list = <<>> THEN OkV(<<>>)
  ELSE LET missing_events ==
             get_app_missing_events(Head(app_ids_list), conversion_events, stores)
       IN IF missing_events.raised # "" THEN missing_events
          ELSE LET rest == VersionLoop(Tail(app_ids_list), conversion_events, stores)
               IN IF rest.raised # "" THEN rest
                  ELSE OkV(missing_events.v \o rest.v)

\* VersionEventsRule.check_rule at moment t
version_check_rule(data, app_ids, t) ==
  IF ~data.ga4.some THEN OkV(<<>>)
  ELSE IF ~data.gads.some THEN OkV(<<>>)
  ELSE
    LET time_period == t - STORE_LOOKBACK_DAYS * TicksPerDay
        latest(tb) == IF tb.some
                        THEN Some(get_latest_versions_of_apps(tb.v, time_period))
                        ELSE NoTable
        stores == [app_store |-> latest(data.app_store),
                   play_store |-> latest(data.play_store)]
        conversion_events == get_conversion_events(data, app_ids)
        app_ids_list ==
          Unique([i \in 1..Len(conversion_events) |-> conversion_events[i].app_id])
    IN VersionLoop(app_ids_list, conversion_events, stores)

\* VersionEventsRule.create_alerts
RECURSIVE version_create_alerts(_, _)
version_create_alerts(data, ts) ==
  IF data = <<>> THEN <<>>
  ELSE LET event == Head(data) IN
    <<[class |-> "Alert", app_id |-> event.app_id,
       rule_name |-> "VersionEventsRule",
       trigger |-> "Missing event between versions",
       trigger_value |-> [Event_Name |-> event.event_name,
                          Missing_from_Version |-> event.cur_ver,
                          Previous_Version |-> event.prev_ver],
       alert_id |-> AlertId("VersionEventsRule", event.app_id, event.event_name,
                            <<>>, <<event.cur_ver, event.prev_ver>>),
       timestamp |-> ts]>>
    \o version_create_alerts(Tail(data), ts)

\* ------------------------------------------------------- configuration
\* list(config['apps'].keys())
AppIds == <<ANDROID_TEST_APP, IOS_TEST_APP>>
AppIdSet == Rows(AppIds)

\* RULES = [IntervalEventsRule, VersionEventsRule]
RULES == <<"IntervalEventsRule", "VersionEventsRule">>

\* the orders of config['collectors'] the model runs
CollectorConfigs ==
  {<<GADS_TABLE_NAME, GA4_TABLE_NAME, APP_STORE_TABLE_NAME, PLAY_STORE_TABLE_NAME>>,
   <<GA4_TABLE_NAME, "collector_other", GADS_TABLE_NAME>>}

CollectorName(c) ==
  CASE c = GA4_TABLE_NAME -> "GA4-collector"
    [] c = GADS_TABLE_NAME -> "GAds-collector"
    [] c = APP_STORE_TABLE_NAME -> "app-store-collector"
    [] c = PLAY_STORE_TABLE_NAME -> "play-store-collector"
    [] OTHER -> ""

\* ----------------------------------------- what the sources may return
T_PURCHASE_ANDROID == <<"FIREBASE", "ANDROID", "PURCHASE">>
T_FIRST_OPEN_ANDROID == <<"FIREBASE", "ANDROID", "FIRST", "OPEN">>
T_PURCHASE_IOS == <<"FIREBASE", "IOS", "PURCHASE">>

GadsRow(app_id, event_name, type) ==
  [app_id |-> app_id, property_id |-> 1, event_name |-> event_name, type |-> type]

GadsFrames ==
  {<<GadsRow(ANDROID_TEST_APP, "purchase", T_PURCHASE_ANDROID),
     GadsRow(ANDROID_TEST_APP, "first_open", T_FIRST_OPEN_ANDROID),
     GadsRow(IOS_TEST_APP, "purchase", T_PURCHASE_IOS)>>}

Ga4Row(os, app_version, event_name) ==
  [property_id |-> 1, os |-> os, app_version |-> app_version,
   event_name |-> event_name]

Ga4Frames ==
  {<<>>,
   <<Ga4Row("Android", V_1_0_0, "purchase"), Ga4Row("Android", V_1_0_0, "first_open"),
     Ga4Row("Android", V_1_2_0, "first_open")>>,
   <<Ga4Row("iOS", V_ver, "purchase")>>,
   <<Ga4Row("Android", V_1_0_0, "purchase"), Ga4Row("Android", V_1_0_0, "first_open"),
     Ga4Row("iOS", V_1_0_0, "purchase")>>}

AppStoreFrames == {<<>>, <<[app_id |-> IOS_TEST_APP, version |-> V_2_0_0]>>}

CODE_7 == <<Str1("7")>>
PlayStoreFrames ==
  {<<>>, <<[app_id |-> ANDROID_TEST_APP, track |-> "production", version |-> CODE_7]>>}

\* GAdsCollector.process
gads_process(df) ==
  [i \in 1..Len(df) |->
     [app_id |-> df[i].app_id, property_id |-> df[i].property_id,
      event_name |-> df[i].event_name, type |-> df[i].type,
      os |-> gads_get_os(df[i].type),
      uid |-> add_uid(gads_get_os(df[i].type), df[i].property_id,
                      df[i].event_name)]]

\* GA4Collector.process at moment t
ga4_process(df, t) ==
  [i \in 1..Len(df) |->
     [property_id |-> df[i].property_id, os |-> df[i].os,
      app_version |-> df[i].app_version, event_name |-> df[i].event_name,
      uid |-> add_uid(df[i].os, df[i].property_id, df[i].event_name),
      date_added |-> DateOf(t)]]

\* AppStoreCollector.process / PlayStoreCollector.process at moment t
app_store_process(df, t) ==
  [i \in 1..Len(df) |->
     [app_id |-> df[i].app_id, version |-> df[i].version, timestamp |-> t]]
play_store_process(df, t) ==
  [i \in 1..Len(df) |->
     [app_id |-> df[i].app_id, track |-> df[i].track,
      version |-> df[i].version, timestamp |-> t]]

\* Collector.build_connection_alert
build_connection_alert(name, id, ts) ==
  [class |-> "Alert", app_id |-> COLLECTOR_ALERT_ID, rule_name |-> name,
   trigger |-> "Connector missing permissions",
   trigger_value |-> [event_name |-> "connector_error"],
   alert_id |-> [toks |-> Tok(name) \o Tok(id) \o <<"connector", "error">>,
                 vers |-> <<>>],
   timestamp |-> ts]

\* ---------------------------------------------------------- orchestrator
\* f'service-{app_id}'
ServiceType(app_id) ==
  CASE app_id = ANDROID_TEST_APP -> "service-com.test.app"
    [] app_id = IOS_TEST_APP -> "service-1072235449"
    [] app_id = COLLECTOR_ALERT_ID -> "service-Connector"
    [] OTHER -> "service-"

EmptyTable == [exists |-> FALSE, rows |-> <<>>]
NoCall == [op |-> "none"]

\* the storage as earlier runs may have left it: the ads table present or not
StoredGads == {EmptyTable} \cup
  {[exists |-> TRUE, rows |-> gads_process(df)] : df \in GadsFrames}

InitWith(configs, gads, ga4) ==
  /\ now = 0
  /\ importTime = 0
  /\ runLog = <<>>
  /\ alertsLog = <<>>
  /\ \E g \in gads, a \in ga4 :
       tbl = [n \in TableNames |->
                IF n = GADS_TABLE_NAME THEN g
                ELSE IF n = GA4_TABLE_NAME THEN a ELSE EmptyTable]
  /\ pc = "idle"
  /\ idx = 1
  /\ overwrite = FALSE
  /\ collectors \in configs
  /\ outbox = <<>>
  /\ runs = 0
  /\ trace = <<>>
  /\ last = NoCall
  /\ calls = 0

Init == InitWith(CollectorConfigs, StoredGads, {EmptyTable})

\* the clock advances
TickTo(max) ==
  /\ now < max
  /\ now' = now + 1
  /\ UNCHANGED <<importTime, runLog, alertsLog, tbl, pc, idx, overwrite,
                 collectors, outbox, runs, trace, last, calls>>

\* the collector loop left after its first item
AfterCollector_break(i) == <<"rules", 1>>

\* position after the collector loop / rule loop / app loop has done item i
AfterCollector(i) ==
  IF i < Len(collectors) THEN <<"collectors", i + 1>> ELSE <<"rules", 1>>
AfterRule(i) == IF i < Len(RULES) THEN <<"rules", i + 1>> ELSE <<"notify", 1>>
AfterApp(i) == IF i < Len(AppIds) THEN <<"notify", i + 1>> ELSE <<"connector", 1>>

\* how the first lines of orchestrator() end: "config": get_config returns
\* {} or a mapping that validate_config rejects with ValidationError;
\* "config_not_mapping": yaml.safe_load returns None, a list or a scalar and
\* Config(**config) raises TypeError, which no except clause names;
\* "bigquery": DefaultCredentialsError or KeyError while connecting
Preconditions == {"ok", "config", "config_not_mapping", "bigquery"}

\* orchestrator(): config and BigQuery client, then the first loop.
\* fresh: the run is a new process, which imports the modules now.
StartOrchestrator(fresh, pre, maxRuns) ==
  /\ pc = "idle"
  /\ runs < maxRuns
  /\ fresh \/ runs > 0
  /\ runs' = runs + 1
  /\ importTime' = IF fresh THEN now ELSE importTime
  /\ trace' = <<>>
  /\ overwrite' = FALSE
  /\ pre \in Preconditions
  /\ IF pre = "ok"
       THEN /\ pc' = IF collectors = <<>> THEN "rules" ELSE "collectors"
            /\ idx' = 1
            /\ last' = [op |-> "orchestrator", pre |-> pre, ret |-> "running"]
       ELSE /\ pc' = "idle"
            /\ idx' = 1
            /\ last' = [op |-> "orchestrator", pre |-> pre,
                        ret |-> IF pre = "config_not_mapping"
                                  THEN "raised" ELSE "False"]
  /\ UNCHANGED <<now, runLog, alertsLog, tbl, collectors, outbox, calls>>

\* an exception leaves orchestrator()
Abort == /\ pc' = "idle"
         /\ idx' = 1
         /\ last' = [op |-> "orchestrator", pre |-> "ok", ret |-> "raised"]

Goto(pos) == /\ pc' = pos[1]
             /\ idx' = pos[2]
             /\ last' = last

Frames(c) == CASE c = GADS_TABLE_NAME -> GadsFrames
               [] c = GA4_TABLE_NAME -> Ga4Frames
               [] c = APP_STORE_TABLE_NAME -> AppStoreFrames
               [] c = PLAY_STORE_TABLE_NAME -> PlayStoreFrames
               [] OTHER -> {<<>>}

Processed(c, df, t) ==
  CASE c = GADS_TABLE_NAME -> gads_process(df)
    [] c = GA4_TABLE_NAME -> ga4_process(df, t)
    [] c = APP_STORE_TABLE_NAME -> app_store_process(df, t)
    [] c = PLAY_STORE_TABLE_NAME -> play_store_process(df, t)
    [] OTHER -> df

CollectorOutcomes(c) ==
  IF c \notin TableNames THEN {"skip"}
  ELSE IF c = GADS_TABLE_NAME THEN {"ok", "raise", "marker_fail", "auth_fail"}
  ELSE {"ok", "raise", "marker_fail"}

\* one iteration of the collector loop: construct, collect, process, save
RunCollector(outcome, df) ==
  /\ pc = "collectors"
  /\ LET c == collectors[idx]
         ow == overwrite \/ c = GADS_TABLE_NAME
         \* GA4Collector.collect subscripts the ads table, None when empty
         typeError == c = GA4_TABLE_NAME
                      /\ ~get_values_from_table(tbl[GADS_TABLE_NAME]).some
         out == IF typeError THEN "raise" ELSE outcome
         saved == out \in {"ok", "marker_fail"} /\ df # <<>>
     IN /\ outcome \in CollectorOutcomes(c)
        /\ df \in Frames(c) \cup {<<>>}
        /\ outcome \in {"skip", "raise", "auth_fail"} => df = <<>>
        /\ outcome = "marker_fail" => df # <<>>
        /\ overwrite' = IF c \in TableNames THEN ow ELSE overwrite
        /\ tbl' = IF saved
                    THEN [tbl EXCEPT ![c] = write_to_table(@, Processed(c, df, now), ow)]
                    ELSE tbl
        /\ alertsLog' =
             IF out = "auth_fail"
               THEN write_alerts(alertsLog,
                      <<build_connection_alert(CollectorName(c), CollectorName(c),
                                               importTime)>>)
               ELSE alertsLog
        /\ runLog' = IF out = "ok" /\ df # <<>>
                       THEN update_last_run(runLog, CollectorName(c), "collector", now)
                       ELSE runLog
        /\ trace' = Append(trace, [kind |-> "collector", name |-> c,
                                   raised |-> out \in {"raise", "marker_fail"},
                                   at |-> now])
        /\ IF out \in {"raise", "marker_fail"} THEN Abort
           ELSE Goto(AfterCollector(idx))
  /\ UNCHANGED <<now, importTime, collectors, outbox, runs, calls>>

\* Rule.get_data of both rules
get_data(rule) ==
  [gads |-> get_values_from_table(tbl[GADS_TABLE_NAME]),
   ga4 |-> get_values_from_table(tbl[GA4_TABLE_NAME]),
   app_store |-> IF rule = "VersionEventsRule"
                   THEN get_values_from_table(tbl[APP_STORE_TABLE_NAME])
                   ELSE NoTable,
   play_store |-> IF rule = "VersionEventsRule"
                    THEN get_values_from_table(tbl[PLAY_STORE_TABLE_NAME])
                    ELSE NoTable]

check_rule(rule, data, t) ==
  IF rule = "IntervalEventsRule"
    THEN OkV(interval_check_rule(data, AppIdSet, t))
    ELSE version_check_rule(data, AppIdSet, t)

create_alerts(rule, rule_violations, ts) ==
  IF rule = "IntervalEventsRule"
    THEN interval_create_alerts(rule_violations, ts)
    ELSE version_create_alerts(rule_violations, ts)

RuleFaults == {"none", "read", "write_alerts", "write_marker"}

\* run() with update_last_run in a finally clause: the marker is written
\* however the steps before it ended
RuleRun_marker_always(rule, fault) ==
  /\ fault \in RuleFaults
  /\ LET collectors_data == get_data(rule)
         rule_violations == check_rule(rule, collectors_data, now)
         triggered_alerts == create_alerts(rule, rule_violations.v, importTime)
         ual == update_alerts_log(alertsLog, triggered_alerts, fault = "write_alerts")
         raised == IF fault = "read" THEN "BigQueryException"
                   ELSE IF rule_violations.raised # "" THEN rule_violations.raised
                   ELSE IF ual.ret = "ClientError" THEN "ClientError"
                   ELSE IF fault = "write_marker" THEN "ClientError"
                   ELSE ""
         logged == fault # "read" /\ rule_violations.raised = ""
     IN /\ fault = "write_alerts" => triggered_alerts # <<>>
        /\ alertsLog' = IF logged THEN ual.log ELSE alertsLog
        /\ runLog' = update_last_run(runLog, rule, "rule", now)
        /\ trace' = Append(trace,
             [kind |-> "rule", name |-> rule, raised |-> raised # "",
              exc |-> raised, at |-> now,
              fetched |-> fault # "read",
              missing |-> fault # "read" /\ (~collectors_data.ga4.some
                                             \/ ~collectors_data.gads.some),
              checkExc |-> IF fault # "read" THEN rule_violations.raised ELSE "",
              violations |-> IF logged THEN rule_violations.v ELSE <<>>,
              alerts |-> IF logged THEN triggered_alerts ELSE <<>>,
              ret |-> IF logged THEN ual.ret ELSE ""])

\* Rule.run of either rule, with the fault the storage injects
RuleRun(rule, fault) ==
  /\ fault \in RuleFaults
  /\ LET collectors_data == get_data(rule)
         rule_violations == check_rule(rule, collectors_data, now)
         triggered_alerts == create_alerts(rule, rule_violations.v, importTime)
         ual == update_alerts_log(alertsLog, triggered_alerts, fault = "write_alerts")
         raised == IF fault = "read" THEN "BigQueryException"
                   ELSE IF rule_violations.raised # "" THEN rule_violations.raised
                   ELSE IF ual.ret = "ClientError" THEN "ClientError"
                   ELSE IF fault = "write_marker" THEN "ClientError"
                   ELSE ""
         logged == fault # "read" /\ rule_violations.raised = ""
     IN /\ fault = "write_alerts" => triggered_alerts # <<>>
        /\ alertsLog' = IF logged THEN ual.log ELSE alertsLog
        /\ runLog' = IF raised = ""
                       THEN update_last_run(runLog, rule, "rule", now)
                       ELSE runLog
        /\ trace' = Append(trace,
             [kind |-> "rule", name |-> rule, raised |-> raised # "",
              exc |-> raised, at |-> now,
              fetched |-> fault # "read",
              missing |-> fault # "read" /\ (~collectors_data.ga4.some
                                             \/ ~collectors_data.gads.some),
              checkExc |-> IF fault # "read" THEN rule_violations.raised ELSE "",
              violations |-> IF logged THEN rule_violations.v ELSE <<>>,
              alerts |-> IF logged THEN triggered_alerts ELSE <<>>,
              ret |-> IF logged THEN ual.ret ELSE ""])

\* one iteration of the rule loop: rule(config) and rule_obj.run()
RunRule(fault) ==
  /\ pc = "rules"
  /\ RuleRun(RULES[idx], fault)
  /\ IF trace'[Len(trace')].raised THEN Abort ELSE Goto(AfterRule(idx))
  /\ UNCHANGED <<now, importTime, tbl, overwrite, collectors, outbox, runs, calls>>

SendOutcomes == {"sent", "http_error", "send_raise", "marker_fail", "read_fail"}

\* handle_alerts(config, bq, alert_id, recipients) with email.send_email
handle_alerts(app_id, outcome, pos) ==
  LET last_date_time_sent == get_last_run(runLog, "Email", ServiceType(app_id))
      df_alerts == get_alerts_for_app_since_date_time(alertsLog, app_id,
                                                      last_date_time_sent, now)
      found == df_alerts # <<>>
      out == IF outcome = "read_fail" THEN "read_fail"
             ELSE IF found THEN outcome ELSE "nothing"
      raised == out \in {"read_fail", "send_raise", "marker_fail"}
  IN /\ outcome \in SendOutcomes
     /\ ~found => outcome \in {"sent", "read_fail"}
     /\ outbox' = IF out \in {"sent", "http_error", "marker_fail"}
                    THEN Append(outbox, [app_id |-> app_id, alerts |-> df_alerts,
                                         delivered |-> out # "http_error",
                                         out |-> out,
                                         run |-> runs])
                    ELSE outbox
     /\ runLog' = IF out \in {"sent", "http_error"}
                    THEN update_last_run(runLog, "Email", ServiceType(app_id), now)
                    ELSE runLog
     /\ trace' = Append(trace, [kind |-> "notify", name |-> app_id,
                                raised |-> raised, at |-> now, out |-> out])
     /\ IF raised THEN Abort
        ELSE IF pos[1] = "idle"
          THEN /\ pc' = "idle"
               /\ idx' = 1
               /\ last' = [op |-> "orchestrator", pre |-> "ok", ret |-> "True"]
          ELSE Goto(pos)

\* one iteration of the loop over config['apps']
HandleAlertsApp(outcome) ==
  /\ pc = "notify"
  /\ handle_alerts(AppIds[idx], outcome, AfterApp(idx))
  /\ UNCHANGED <<now, importTime, alertsLog, tbl, overwrite, collectors, runs, calls>>

\* handle_alerts for COLLECTOR_ALERT_ID, then return True
HandleAlertsConnector(outcome) ==
  /\ pc = "connector"
  /\ handle_alerts(COLLECTOR_ALERT_ID, outcome, <<"idle", 1>>)
  /\ UNCHANGED <<now, importTime, alertsLog, tbl, overwrite, collectors, runs, calls>>

\* a call of orchestrator() is followed at the grain of the call: the clock is
\* read between calls (SpecGate follows it inside a call)
Tick == pc = "idle" /\ TickTo(OrchMaxTime)

Start == \E fresh \in BOOLEAN, pre \in Preconditions :
           StartOrchestrator(fresh, pre, OrchMaxRuns)

Next ==
  \/ Tick
  \/ Start
  \/ \E outcome \in {"ok", "raise", "marker_fail", "auth_fail", "skip"},
        df \in GadsFrames \cup Ga4Frames \cup AppStoreFrames \cup PlayStoreFrames :
       RunCollector(outcome, df)
  \/ \E fault \in RuleFaults : RunRule(fault)
  \/ \E outcome \in SendOutcomes : HandleAlertsApp(outcome)
  \/ \E outcome \in SendOutcomes : HandleAlertsConnector(outcome)

Spec == Init /\ [][Next]_vars

\* ------------------------------------------- runs without collectors
\* config['collectors'] is empty and the source tables are as earlier
\* collector runs left them
StoredGa4 == {EmptyTable} \cup
  {[exists |-> TRUE, rows |-> ga4_process(df, 0)] : df \in Ga4Frames \ {<<>>}}

InitGate == InitWith({<<>>}, StoredGads, StoredGa4)

TickGate == TickTo(MaxTime)

StartGate == \E fresh \in BOOLEAN, pre \in Preconditions :
               StartOrchestrator(fresh, pre, MaxRuns)

NextGate ==
  \/ TickGate
  \/ StartGate
  \/ \E fault \in RuleFaults : RunRule(fault)
  \/ \E outcome \in SendOutcomes : HandleAlertsApp(outcome)
  \/ \E outcome \in SendOutcomes : HandleAlertsConnector(outcome)

SpecGate == InitGate /\ [][NextGate]_vars

\* ------------------------------------------------ direct calls of a rule
\* rule_obj.run() called on its own, on tables earlier collector runs left
InitRule == InitGate

TickRule == TickTo(MaxTime)

CallRun(rule, fault) ==
  /\ pc = "idle"
  /\ calls < MaxCalls
  /\ calls' = calls + 1
  /\ RuleRun(rule, fault)
  /\ UNCHANGED <<now, importTime, tbl, pc, idx, overwrite, collectors, outbox,
                 runs, last>>

NextRule ==
  \/ TickRule
  \/ \E rule \in Rows(RULES), fault \in RuleFaults : CallRun(rule, fault)

SpecRule == InitRule /\ [][NextRule]_vars

\* ------------------------------------- direct calls of the storage layer
DbNames == {"Email", "IntervalEventsRule"}
DbTypes == {"rule", "service-com.test.app"}

AlertItems ==
  Rows(interval_create_alerts(
         <<[event_name |-> "purchase", app_id |-> ANDROID_TEST_APP,
            interval |-> INTERVAL]>>, 0))
  \cup Rows(version_create_alerts(
         <<VersionEvent("first_open", IOS_TEST_APP, V_1_2_0, V_1_0_0)>>, 0))
  \cup {[class |-> "str", value |-> "Invalid test value"]}

InitDb == InitWith({<<>>}, {EmptyTable}, {EmptyTable})

TickDb == TickTo(DbMaxTime)

CallUpdateLastRun(name, type_, ioFail) ==
  /\ calls < DbMaxCalls
  /\ calls' = calls + 1
  /\ runLog' = IF ioFail THEN runLog ELSE update_last_run(runLog, name, type_, now)
  /\ last' = [op |-> "update_last_run", name |-> name, type |-> type_,
              ret |-> IF ioFail THEN "ClientError" ELSE "True"]
  /\ UNCHANGED <<now, importTime, alertsLog, tbl, pc, idx, overwrite, collectors,
                 outbox, runs, trace>>

CallGetLastRun(name, type_) ==
  /\ last' = [op |-> "get_last_run", name |-> name, type |-> type_,
              ret |-> get_last_run(runLog, name, type_)]
  /\ UNCHANGED <<now, importTime, runLog, alertsLog, tbl, pc, idx, overwrite,
                 collectors, outbox, runs, trace, calls>>

CallUpdateAlertsLog(triggered_alerts, ioFail) ==
  /\ calls < DbMaxCalls
  /\ calls' = calls + 1
  /\ LET ual == update_alerts_log(alertsLog, triggered_alerts, ioFail) IN
     /\ ioFail => ual.ret = "ClientError"
     /\ alertsLog' = ual.log
     /\ last' = [op |-> "update_alerts_log", triggered |-> triggered_alerts,
                 ret |-> ual.ret, before |-> alertsLog]
  /\ UNCHANGED <<now, importTime, runLog, tbl, pc, idx, overwrite, collectors,
                 outbox, runs, trace>>

NextDb ==
  \/ TickDb
  \/ \E name \in DbNames, type_ \in DbTypes, ioFail \in BOOLEAN :
       CallUpdateLastRun(name, type_, ioFail)
  \/ \E name \in DbNames, type_ \in DbTypes : CallGetLastRun(name, type_)
  \/ \E triggered_alerts \in SeqsUpTo(AlertItems, MaxItems), ioFail \in BOOLEAN :
       CallUpdateAlertsLog(triggered_alerts, ioFail)

SpecDb == InitDb /\ [][NextDb]_vars

\* ------------------------------------ direct calls of the version helpers
InitV ==
  /\ now = 0 /\ importTime = 0 /\ runLog = <<>> /\ alertsLog = <<>>
  /\ tbl = [n \in TableNames |-> EmptyTable]
  /\ pc = "idle" /\ idx = 1 /\ overwrite = FALSE /\ collectors = <<>>
  /\ outbox = <<>> /\ runs = 0 /\ trace = <<>> /\ calls = 0
  /\ last \in {[op |-> "versions", versions |-> v] :
                 v \in SeqsUpTo(VersionPool, MaxVersions)}

CallFindLatestVersion ==
  /\ last.op = "versions"
  /\ last' = [op |-> "find_latest_version", versions |-> last.versions,
              ret |-> find_latest_version(last.versions)]
  /\ UNCHANGED <<now, importTime, runLog, alertsLog, tbl, pc, idx, overwrite,
                 collectors, outbox, runs, trace, calls>>

\* find_previous_version(cur_ver, versions) as get_missing_events_ga4 calls
\* it: cur_ver is what find_latest_version returned
CallFindPreviousVersion ==
  /\ last.op = "find_latest_version"
  /\ last.ret.raised = ""
  /\ last' = [op |-> "find_previous_version", versions |-> last.versions,
              cur_ver |-> last.ret.value,
              ret |-> find_previous_version(last.ret.value, last.versions)]
  /\ UNCHANGED <<now, importTime, runLog, alertsLog, tbl, pc, idx, overwrite,
                 collectors, outbox, runs, trace, calls>>

NextV == CallFindLatestVersion \/ CallFindPreviousVersion

SpecV == InitV /\ [][NextV]_vars

\* ------------------------------ direct calls of get_data and check_rule
CheckMaxTime == 4

\* an app of the ads account that config['apps'] does not list
OTHER_APP == "com.other.app"

\* the ads table as GAdsCollector.save left it: absent, one conversion
\* action per (app, event), or two conversion actions for one (app, event)
\* and one for an app that is not monitored
CheckGads == {EmptyTable} \cup
  {[exists |-> TRUE, rows |-> gads_process(df)] :
     df \in GadsFrames \cup
       {<<GadsRow(ANDROID_TEST_APP, "purchase", T_PURCHASE_ANDROID),
          GadsRow(ANDROID_TEST_APP, "purchase", T_PURCHASE_ANDROID),
          GadsRow(IOS_TEST_APP, "purchase", T_PURCHASE_IOS),
          GadsRow(OTHER_APP, "purchase", T_PURCHASE_ANDROID)>>}}

\* a row of the analytics table that GA4Collector saved on day date
Ga4At(os, app_version, event_name, date) ==
  [property_id |-> 1, os |-> os, app_version |-> app_version,
   event_name |-> event_name, uid |-> add_uid(os, 1, event_name),
   date_added |-> date]

\* the analytics table: absent, present without rows, or with rows
CheckGa4 ==
  {EmptyTable, [exists |-> TRUE, rows |-> <<>>],
   [exists |-> TRUE, rows |->
      <<Ga4At("Android", V_1_0_0, "purchase", 0),
        Ga4At("Android", V_1_0_0, "first_open", 0),
        Ga4At("Android", V_1_1_0, "first_open", 0),
        Ga4At("iOS", V_1_0_0, "purchase", 0)>>],
   [exists |-> TRUE, rows |->
      <<Ga4At("Android", V_ver, "purchase", 0),
        Ga4At("iOS", V_1_0_0, "purchase", 0)>>],
   [exists |-> TRUE, rows |->
      <<Ga4At("Android", V_1_0_0, "first_open", 0),
        Ga4At("Android", V_1_2_0, "purchase", 1),
        Ga4At("iOS", V_1_0_0, "purchase", 0)>>]}

\* moments at which a store collector saw a release: within the 24 hours
\* after the start of day 0, and later than that
SeenTimes == {RELEASE_BUFFER_DAYS * TicksPerDay, RELEASE_BUFFER_DAYS * TicksPerDay + 1}

\* the app-store table: absent, a release seen at one of SeenTimes, a
\* malformed version, or a release seen almost seven days before moment 0
CheckAppStore == {EmptyTable} \cup
  {[exists |-> TRUE, rows |-> app_store_process(df, t)] :
     df \in AppStoreFrames \ {<<>>}, t \in SeenTimes} \cup
  {[exists |-> TRUE, rows |->
      app_store_process(<<[app_id |-> IOS_TEST_APP, version |-> V_ver]>>,
                        RELEASE_BUFFER_DAYS * TicksPerDay + 1)],
   [exists |-> TRUE, rows |->
      app_store_process(<<[app_id |-> IOS_TEST_APP, version |-> V_2_0_0]>>,
                        1 - STORE_LOOKBACK_DAYS * TicksPerDay)]}

CheckPlayStore == {EmptyTable} \cup
  {[exists |-> TRUE, rows |-> play_store_process(df, t)] :
     df \in PlayStoreFrames \ {<<>>}, t \in SeenTimes}

InitCheck ==
  /\ now = 0 /\ importTime = 0 /\ runLog = <<>> /\ alertsLog = <<>>
  /\ \E g \in CheckGads, a \in CheckGa4, s \in CheckAppStore, p \in CheckPlayStore :
       tbl = [n \in TableNames |->
                CASE n = GADS_TABLE_NAME -> g
                  [] n = GA4_TABLE_NAME -> a
                  [] n = APP_STORE_TABLE_NAME -> s
                  [] OTHER -> p]
  /\ pc = "idle" /\ idx = 1 /\ overwrite = FALSE /\ collectors = <<>>
  /\ outbox = <<>> /\ runs = 0 /\ trace = <<>> /\ calls = 0
  /\ last = NoCall

TickCheck == TickTo(CheckMaxTime)

\* collectors_data = self.get_data()
CallGetData(rule) ==
  /\ last' = [op |-> "get_data", rule |-> rule, data |-> get_data(rule)]
  /\ UNCHANGED <<now, importTime, runLog, alertsLog, tbl, pc, idx, overwrite,
                 collectors, outbox, runs, trace, calls>>

\* self.check_rule(collectors_data) on the tables get_data returned; before
\* is the previous call on the same tables, if there was one
CallCheckRule ==
  /\ last.op \in {"get_data", "check_rule"}
  /\ last' = [op |-> "check_rule", rule |-> last.rule, data |-> last.data,
              at |-> now, ret |-> check_rule(last.rule, last.data, now),
              before |-> IF last.op = "check_rule"
                           THEN [op |-> "check_rule", at |-> last.at,
                                 ret |-> last.ret]
                           ELSE NoCall]
  /\ UNCHANGED <<now, importTime, runLog, alertsLog, tbl, pc, idx, overwrite,
                 collectors, outbox, runs, trace, calls>>

\* the versions compare_events_between_versions is called with
DiffVersions == {V_1_0_0, V_1_1_0, V_1_2_0, V_ver, NoneStr}

\* compare_events_between_versions(cur_ver, prev_ver, app_conversion_events)
\* on the conversion events of app_id
CallCompareEvents(app_id, cur_ver, prev_ver) ==
  /\ last.op = "get_data"
  /\ last.rule = "VersionEventsRule"
  /\ last.data.gads.some /\ last.data.ga4.some
  /\ LET df == SelectSeq(get_conversion_events(last.data, AppIdSet),
                         LAMBDA r : r.app_id = app_id)
     IN /\ df # <<>>
        /\ last' = [op |-> "compare_events_between_versions",
                    cur_ver |-> cur_ver, prev_ver |-> prev_ver, df |-> df,
                    ret |-> compare_events_between_versions(cur_ver, prev_ver, df)]
  /\ UNCHANGED <<now, importTime, runLog, alertsLog, tbl, pc, idx, overwrite,
                 collectors, outbox, runs, trace, calls>>

NextCheck ==
  \/ TickCheck
  \/ \E rule \in Rows(RULES) : CallGetData(rule)
  \/ CallCheckRule
  \/ \E app_id \in AppIdSet \cup {OTHER_APP}, cur_ver \in DiffVersions,
        prev_ver \in DiffVersions : CallCompareEvents(app_id, cur_ver, prev_ver)

SpecCheck == InitCheck /\ [][NextCheck]_vars

\* ------------------------------ repeated runs over tables left by a run
LogMaxRuns == 2
LogMaxTime == 1

\* config['collectors'] holds the ads and the analytics collector, in either
\* order; an earlier run left an ads table with two conversion actions for
\* one (app, event) and analytics rows of day 0
InitLog ==
  InitWith({<<GADS_TABLE_NAME, GA4_TABLE_NAME>>,
            <<GA4_TABLE_NAME, GADS_TABLE_NAME>>},
           {t \in CheckGads : t.exists /\ Len(t.rows) = 4},
           {[exists |-> TRUE, rows |->
               <<Ga4At("Android", V_1_0_0, "first_open", 0),
                 Ga4At("iOS", V_1_0_0, "purchase", 0)>>]})

NextLog ==
  \/ pc = "idle" /\ TickTo(LogMaxTime)
  \/ \E fresh \in BOOLEAN, pre \in Preconditions :
       StartOrchestrator(fresh, pre, LogMaxRuns)
  \/ \E outcome \in {"ok", "raise", "marker_fail", "auth_fail"},
        df \in GadsFrames \cup Ga4Frames : RunCollector(outcome, df)
  \/ \E fault \in RuleFaults : RunRule(fault)
  \/ \E outcome \in SendOutcomes : HandleAlertsApp(outcome)
  \/ \E outcome \in SendOutcomes : HandleAlertsConnector(outcome)

SpecLog == InitLog /\ [][NextLog]_vars

\* -------------------------- direct calls of get_latest_versions_of_apps
LatestMaxRows == 3
LatestMaxTime == 1

\* rows of the marketplace table, with timestamps one tick before the
\* lookback window of time 0, at its first moment, and at time 0
LatestRows == [app_id : {IOS_TEST_APP, OTHER_APP},
               version : {V_1_0_0, V_2_0_0},
               timestamp : {0 - STORE_LOOKBACK_DAYS * TicksPerDay - 1,
                            0 - STORE_LOOKBACK_DAYS * TicksPerDay, 0}]

InitLatest ==
  /\ now = 0 /\ importTime = 0 /\ runLog = <<>> /\ alertsLog = <<>>
  /\ \E s \in SeqsUpTo(LatestRows, LatestMaxRows) :
       tbl = [n \in TableNames |->
                IF n = APP_STORE_TABLE_NAME /\ s # <<>>
                  THEN [exists |-> TRUE, rows |-> s] ELSE EmptyTable]
  /\ pc = "idle" /\ idx = 1 /\ overwrite = FALSE /\ collectors = <<>>
  /\ outbox = <<>> /\ runs = 0 /\ trace = <<>> /\ calls = 0
  /\ last = NoCall

\* check_rule, lines 147-156: the lookback and the latest rows of the table
CallLatestVersions ==
  /\ last = NoCall
  /\ get_values_from_table(tbl[APP_STORE_TABLE_NAME]).some
  /\ LET apps_data == get_values_from_table(tbl[APP_STORE_TABLE_NAME]).v
         time_period == now - STORE_LOOKBACK_DAYS * TicksPerDay
     IN last' = [op |-> "get_latest_versions_of_apps",
                 apps_data |-> apps_data, time_period |-> time_period,
                 ret |-> get_latest_versions_of_apps(apps_data, time_period)]
  /\ UNCHANGED <<now, importTime, runLog, alertsLog, tbl, pc, idx, overwrite,
                 collectors, outbox, runs, trace, calls>>

\* get_missing_events_app_store on the rows get_latest_versions_of_apps
\* returned, for an app whose analytics version is cur_ver
CallMissingEventsAppStore(app_id, cur_ver) ==
  /\ last.op = "get_latest_versions_of_apps"
  /\ last' = [op |-> "get_missing_events_app_store",
              apps_data |-> last.apps_data, time_period |-> last.time_period,
              store |-> last.ret, app_id |-> app_id, cur_ver |-> cur_ver,
              ret |-> get_missing_events_app_store(last.ret, app_id, cur_ver)]
  /\ UNCHANGED <<now, importTime, runLog, alertsLog, tbl, pc, idx, overwrite,
                 collectors, outbox, runs, trace, calls>>

NextLatest ==
  \/ last = NoCall /\ TickTo(LatestMaxTime)
  \/ CallLatestVersions
  \/ \E app_id \in {IOS_TEST_APP, OTHER_APP} :
       CallMissingEventsAppStore(app_id, V_1_0_0)

SpecLatest == InitLatest /\ [][NextLatest]_vars

\* -------------------------------------------- direct calls of create_alerts
IdMaxItems == 2

\* the violations check_rule can hand to create_alerts, with app ids and
\* event names with and without '_'
IdViolations(rule) ==
  LET apps == {ANDROID_TEST_APP, "com.test_app", "com.test"}
      events == {"purchase", "first_open", "first", "app_first"}
  IN IF rule = "IntervalEventsRule"
       THEN [event_name : events, app_id : apps, interval : {INTERVAL}]
       ELSE {VersionEvent(event_name, app_id, cur_ver, prev_ver) :
               event_name \in events, app_id \in apps,
               cur_ver \in {V_1_2_0}, prev_ver \in {V_1_0_0, V_1_1_0}}

InitIds ==
  /\ now = 0 /\ importTime = 0 /\ runLog = <<>> /\ alertsLog = <<>>
  /\ tbl = [n \in TableNames |-> EmptyTable]
  /\ pc = "idle" /\ idx = 1 /\ overwrite = FALSE /\ collectors = <<>>
  /\ outbox = <<>> /\ runs = 0 /\ trace = <<>> /\ calls = 0
  /\ \E rule \in Rows(RULES) :
       last \in {[op |-> "check_rule", rule |-> rule, ret |-> v] :
                   v \in SeqsUpTo(IdViolations(rule), IdMaxItems)}

\* triggered_alerts = self.create_alerts(rule_violations)
CallCreateAlerts ==
  /\ last.op = "check_rule"
  /\ last' = [op |-> "create_alerts", rule |-> last.rule,
              rule_violations |-> last.ret,
              ret |-> create_alerts(last.rule, last.ret, importTime)]
  /\ UNCHANGED <<now, importTime, runLog, alertsLog, tbl, pc, idx, overwrite,
                 collectors, outbox, runs, trace, calls>>

NextIds == CallCreateAlerts

SpecIds == InitIds /\ [][NextIds]_vars

\* ================================================================ claims

\* ----------------------------------------------------------------- C10
C10_Valid(versions) == {v \in Rows(versions) : is_version(v)}

C10_IsMax(v, S) ==
  v \in S /\ \A w \in S : ~VerLess(VersionOf(v), VersionOf(w))

C10_Below(v, S) == {w \in S : VerLess(VersionOf(w), VersionOf(v))}

\* C10: for every list V with at least one valid X.Y.Z version,
\* find_latest_version(V) returns the maximum valid version under numeric
\* major.minor.patch ordering, and find_previous_version(max, V) returns the
\* largest valid version strictly less than max.
C10_LatestAndPreviousAreMaxima ==
  /\ (last.op = "find_latest_version" /\ C10_Valid(last.versions) # {})
       => /\ last.ret.raised = ""
          /\ C10_IsMax(last.ret.value, C10_Valid(last.versions))
  /\ (/\ last.op = "find_previous_version"
      /\ is_version(last.cur_ver)
      /\ C10_Below(last.cur_ver, C10_Valid(last.versions)) # {})
       => /\ last.ret.raised = ""
          /\ C10_IsMax(last.ret.value,
                       C10_Below(last.cur_ver, C10_Valid(last.versions)))

\* ------------------------------------------------------------------ C7
\* C7: update_alerts_log called with a non-empty list in which some element
\* is not an Alert raises TypeError and leaves the alert log as it was: no
\* element of the list is written.
C7_TypeErrorWritesNothing ==
  (/\ last.op = "update_alerts_log"
   /\ \E i \in 1..Len(last.triggered) : last.triggered[i].class # "Alert")
    => /\ last.ret = "TypeError"
       /\ alertsLog = last.before

\* a list that starts with a well-formed Alert and has a string after it is
\* rejected when the alert log already holds rows
C7_Witness ==
  /\ last.op = "update_alerts_log"
  /\ Len(last.triggered) = 2
  /\ last.triggered[1].class = "Alert"
  /\ last.triggered[2].class = "str"
  /\ last.ret = "TypeError"
  /\ last.before # <<>>

\* ------------------------------------------------------------------ C8
\* the marker of (name, type_) appended last, if any
C8_LastAppended(name, type_) ==
  LET at == {i \in 1..Len(runLog) :
               runLog[i].name = name /\ runLog[i].type = type_}
  IN IF at = {} THEN Nothing ELSE Some(runLog[Max(at)].timestamp)

\* C8 as stated: get_last_run(name, type) returns the timestamp of the most
\* recently appended marker whose name and type both match, and None when
\* there is none.
C8_ReturnsMarkerTimestamp ==
  last.op = "get_last_run" => last.ret = C8_LastAppended(last.name, last.type)

\* C8 amended: get_last_run(name, type) returns the timestamp, cut down to
\* the whole second, of the most recently appended marker whose name and type
\* both match, ignoring the markers of every other pair, and None when there
\* is none.
C8_ReturnsMarkerSecond ==
  last.op = "get_last_run"
    => LET m == C8_LastAppended(last.name, last.type)
       IN last.ret = IF m.some THEN Some((m.v \div TicksPerSec) * TicksPerSec)
                      ELSE Nothing

\* a marker written inside a second is read back while a marker of another
\* pair, appended after it, is the newest row of the log
C8_Witness ==
  /\ last.op = "get_last_run"
  /\ last.ret.some
  /\ C8_LastAppended(last.name, last.type).v % TicksPerSec # 0
  /\ Len(runLog) >= 2
  /\ runLog[Len(runLog)].name = last.name
  /\ runLog[Len(runLog)].type # last.type
  /\ runLog[Len(runLog)].timestamp > C8_LastAppended(last.name, last.type).v

\* ------------------------------------------------------------------ C1
C1_Ran(kind, name) ==
  \E i \in 1..Len(trace) : trace[i].kind = kind /\ trace[i].name = name

\* C1: in one orchestrator run, an exception raised by a single collector or
\* a single rule is contained: every remaining collector, every remaining
\* rule and every per-app notification step of the run is still executed.
C1_FailureContained ==
  (/\ pc = "idle"
   /\ \E i \in 1..Len(trace) :
        trace[i].kind \in {"collector", "rule"} /\ trace[i].raised)
    => /\ \A c \in Rows(collectors) : C1_Ran("collector", c)
       /\ \A r \in Rows(RULES) : C1_Ran("rule", r)
       /\ \A a \in Rows(AppIds) : C1_Ran("notify", a)

\* ------------------------------------------------------------------ C2
\* the first n steps of the run are the configured collectors, in order,
\* each saved without an exception
C2_CollectorsDone ==
  /\ Len(trace) >= Len(collectors)
  /\ \A j \in 1..Len(collectors) :
       /\ trace[j].kind = "collector"
       /\ trace[j].name = collectors[j]
       /\ ~trace[j].raised

C2_RulesDone ==
  /\ Len(trace) >= Len(collectors) + Len(RULES)
  /\ \A k \in 1..Len(RULES) :
       /\ trace[Len(collectors) + k].kind = "rule"
       /\ trace[Len(collectors) + k].name = RULES[k]
       /\ ~trace[Len(collectors) + k].raised

\* C2: in every orchestrator run all configured collectors have finished
\* before the first rule starts, and all rules have finished before the
\* first notification step starts; no rule reads the source tables while a
\* collector of the run is pending.
C2_PhasesInOrder ==
  /\ pc = "rules" => C2_CollectorsDone
  /\ pc \in {"notify", "connector"} => C2_CollectorsDone /\ C2_RulesDone
  /\ \A i \in 1..Len(trace) :
       /\ trace[i].kind = "rule" => i > Len(collectors) /\ C2_CollectorsDone
       /\ trace[i].kind = "notify"
            => /\ i > Len(collectors) + Len(RULES)
               /\ C2_CollectorsDone
               /\ C2_RulesDone

\* a run over four configured collectors that got to its notifications
C2_Witness ==
  /\ Len(collectors) = 4
  /\ pc = "idle"
  /\ last = [op |-> "orchestrator", pre |-> "ok", ret |-> "True"]
  /\ \E i \in 1..Len(trace) : trace[i].kind = "notify"
  /\ \E i \in 1..Len(trace) : trace[i].kind = "rule" /\ trace[i].alerts # <<>>

\* ------------------------------------------------------------------ C5
\* the step is a run() of a rule, and e is what it did
C5_RuleStep == Len(trace') = Len(trace) + 1 /\ trace'[Len(trace')].kind = "rule"

\* C5: when a rule's run() produces no alerts, update_alerts_log returns
\* False without writing anything to the alert log and without an error, and
\* the rule's run marker (name, 'rule') is still appended to the run log
\* (the storage accepting the marker's row).
C5_NoAlertsStillMarks ==
  [][(/\ C5_RuleStep
      /\ trace'[Len(trace')].fetched
      /\ trace'[Len(trace')].checkExc = ""
      /\ trace'[Len(trace')].alerts = <<>>)
       => /\ trace'[Len(trace')].ret = "False"
          /\ alertsLog' = alertsLog
          /\ trace'[Len(trace')].exc \in {"", "ClientError"}
          /\ trace'[Len(trace')].exc = ""
               => runLog' = Append(runLog,
                                   [name |-> trace'[Len(trace')].name,
                                    type |-> "rule", timestamp |-> now])]_vars

\* both source tables hold rows, a rule found nothing to report, and its
\* marker is the newest row of the run log
C5_Witness ==
  /\ trace # <<>>
  /\ get_values_from_table(tbl[GADS_TABLE_NAME]).some
  /\ get_values_from_table(tbl[GA4_TABLE_NAME]).some
  /\ LET e == trace[Len(trace)] IN
       /\ e.kind = "rule"
       /\ e.fetched /\ ~e.missing
       /\ e.alerts = <<>>
       /\ e.ret = "False"
       /\ e.exc = ""
       /\ runLog # <<>>
       /\ runLog[Len(runLog)] = [name |-> e.name, type |-> "rule",
                                 timestamp |-> e.at]

\* ------------------------------------------------------------------ C6
\* C6: for both rules, when the ads table or the analytics table is absent,
\* check_rule returns an empty violation list without raising, and run()
\* writes no alert and still appends the rule's run marker (the storage
\* accepting the marker's row).
C6_MissingTablesFailClosed ==
  [][(/\ C5_RuleStep
      /\ trace'[Len(trace')].fetched
      /\ (~tbl[GADS_TABLE_NAME].exists \/ ~tbl[GA4_TABLE_NAME].exists))
       => /\ trace'[Len(trace')].checkExc = ""
          /\ trace'[Len(trace')].violations = <<>>
          /\ trace'[Len(trace')].alerts = <<>>
          /\ alertsLog' = alertsLog
          /\ trace'[Len(trace')].exc = ""
               => runLog' = Append(runLog,
                                   [name |-> trace'[Len(trace')].name,
                                    type |-> "rule", timestamp |-> now])]_vars

\* with the analytics table present and the ads table absent, both rules ran
\* and each left its marker
C6_Witness ==
  /\ ~tbl[GADS_TABLE_NAME].exists
  /\ tbl[GA4_TABLE_NAME].exists
  /\ alertsLog = <<>>
  /\ \A r \in Rows(RULES) :
       /\ \E i \in 1..Len(trace) :
            /\ trace[i].kind = "rule" /\ trace[i].name = r
            /\ trace[i].missing /\ trace[i].exc = ""
       /\ \E k \in 1..Len(runLog) : runLog[k].name = r /\ runLog[k].type = "rule"

\* ------------------------------------------------------------------ C9
\* the alert_id the claim gives for a violation of a rule
C9_AlertId(rule, event) ==
  IF rule = "IntervalEventsRule"
    THEN [toks |-> <<"IntervalEventsRule">> \o Tok(event.app_id)
                   \o Tok(event.event_name) \o <<"24">>,
          vers |-> <<>>]
    ELSE [toks |-> <<"VersionEventsRule">> \o Tok(event.app_id)
                   \o Tok(event.event_name),
          vers |-> <<event.cur_ver, event.prev_ver>>]

C9_Ids(e) == {e.alerts[k].alert_id : k \in 1..Len(e.alerts)}

\* the runs of rules that got as far as create_alerts
C9_Created == {i \in 1..Len(trace) : trace[i].kind = "rule" /\ trace[i].ret # ""}

C9_OnePerViolation(e) ==
  /\ Len(e.alerts) = Len(e.violations)
  /\ \A k \in 1..Len(e.alerts) :
       /\ e.alerts[k].alert_id = C9_AlertId(e.name, e.violations[k])
       /\ e.alerts[k].app_id = e.violations[k].app_id
       /\ e.alerts[k].rule_name = e.name

\* C9 as stated: create_alerts maps each violation to exactly one Alert, in
\* order, with the alert_id built from the rule name and the violation's
\* fields; so running a rule repeatedly on identical source data yields the
\* same set of alert_ids on every run.
C9_SameIdsOnEveryRun ==
  /\ \A i \in C9_Created : C9_OnePerViolation(trace[i])
  /\ \A i, j \in C9_Created :
       trace[i].name = trace[j].name => C9_Ids(trace[i]) = C9_Ids(trace[j])

\* C9 amended: create_alerts maps each violation to exactly one Alert, in
\* order, with the alert_id built from the rule name and the violation's
\* fields; so two runs of a rule that find the same violations yield the same
\* alert_ids.
C9_SameIdsForSameViolations ==
  /\ \A i \in C9_Created : C9_OnePerViolation(trace[i])
  /\ \A i, j \in C9_Created :
       (trace[i].name = trace[j].name /\ trace[i].violations = trace[j].violations)
         => /\ C9_Ids(trace[i]) = C9_Ids(trace[j])
            /\ \A k \in 1..Len(trace[i].alerts) :
                 trace[i].alerts[k].alert_id = trace[j].alerts[k].alert_id

\* IntervalEventsRule ran twice on the same tables, found one violation the
\* first time and, a day later, that one and others
C9_Witness ==
  \E i, j \in C9_Created :
    /\ i < j
    /\ trace[i].name = "IntervalEventsRule" /\ trace[j].name = "IntervalEventsRule"
    /\ Len(trace[i].alerts) = 1
    /\ Len(trace[j].alerts) >= 2
    /\ trace[j].alerts[Len(trace[j].alerts)].alert_id = trace[i].alerts[1].alert_id
    /\ trace[i].at < trace[j].at

\* ------------------------------------------------------------------ C3
C3_Service(app_id) ==
  CASE app_id = "com.test.app" -> "service-com.test.app"
    [] app_id = "1072235449" -> "service-1072235449"
    [] app_id = "Connector" -> "service-Connector"

\* the 'email sent' markers of an app, by position in the run log
C3_Markers(app_id) ==
  {i \in 1..Len(runLog) :
     runLog[i].name = "Email" /\ runLog[i].type = C3_Service(app_id)}

C3_Second(t) == t - (t % TicksPerSec)

\* the rows of the alert log for the app since its last marker; with no
\* marker, every row of the app
C3_SinceMarker(app_id) ==
  {i \in 1..Len(alertsLog) :
     /\ alertsLog[i].app_id = app_id
     /\ C3_Markers(app_id) # {}
          => alertsLog[i].timestamp
               >= C3_Second(runLog[Max(C3_Markers(app_id))].timestamp)}

\* the same, and with no marker the rows of the app of the last day
C3_SinceMarkerOrLastDay(app_id) ==
  {i \in C3_SinceMarker(app_id) :
     C3_Markers(app_id) = {}
       => alertsLog[i].timestamp >= C3_Second(now - TicksPerSec * SecsPerDay)}

\* the step is a handle_alerts that got its answers from the storage
C3_NotifyStep ==
  /\ Len(trace') = Len(trace) + 1
  /\ trace'[Len(trace')].kind = "notify"
  /\ trace'[Len(trace')].out # "read_fail"

\* what the claim says of a handle_alerts step, given the window's rows
C3_DispatchIff(app_id, window) ==
  /\ window # {} <=> trace'[Len(trace')].out # "nothing"
  /\ trace'[Len(trace')].out \in {"sent", "http_error", "marker_fail"}
       => /\ Len(outbox') = Len(outbox) + 1
          /\ outbox'[Len(outbox')].app_id = app_id
          /\ Rows(outbox'[Len(outbox')].alerts) = window
  /\ trace'[Len(trace')].out \in {"sent", "http_error"}
       => runLog' = Append(runLog, [name |-> "Email", type |-> C3_Service(app_id),
                                    timestamp |-> now])
  /\ trace'[Len(trace')].out = "nothing"
       => runLog' = runLog /\ outbox' = outbox

C4_NeverMailedTwice ==
  \A i, j \in 1..Len(outbox) :
    (/\ i < j
     /\ outbox[i].app_id = outbox[j].app_id
     /\ outbox[i].out = "sent"
     /\ outbox[j].delivered)
      => Rows(outbox[i].alerts) \cap Rows(outbox[j].alerts) = {}

\* ----------------------------------------------------------------- C11
\* a version string of the analytics table or of the app-marketplace table
\* that is not X.Y.Z
C11_Malformed(data) ==
  \/ \E r \in Rows(data.ga4.v) : ~is_version(r.app_version)
  \/ \E r \in Rows(data.app_store.v) : ~is_version(r.version)

\* C11: VersionEventsRule.check_rule never fails because of a malformed
\* version string: on tables in which an app_version or a store version is
\* not X.Y.Z (an app none of whose versions is X.Y.Z included) it completes
\* without raising, and no violation it returns compares such a string.
C11_MalformedVersionsNeverRaise ==
  (/\ last.op = "check_rule"
   /\ last.rule = "VersionEventsRule"
   /\ C11_Malformed(last.data))
  => /\ last.ret.raised = ""
     /\ \A e \in Rows(last.ret.v) :
          e.prev_ver \in {r.app_version : r \in Rows(last.data.ga4.v)}
            => is_version(e.prev_ver)

\* ----------------------------------------------------------------- C12
\* positions of the ads rows that carry (app_id, event_name)
C12_AdsRows(app_id, event_name) ==
  {i \in DOMAIN last.data.gads.v :
     /\ last.data.gads.v[i].app_id = app_id
     /\ last.data.gads.v[i].event_name = event_name}

\* no analytics row has the uid of an ads row of the pair and a date_added
\* within the one-day lookback of the call
C12_Unobserved(app_id, event_name) ==
  \A i \in C12_AdsRows(app_id, event_name) :
    ~\E r \in Rows(last.data.ga4.v) :
       /\ r.uid = last.data.gads.v[i].uid
       /\ r.date_added >= DateOf(last.at) - 1

\* how many times the result holds IntervalEvent(event_name, app_id, 24)
C12_Emitted(app_id, event_name) ==
  Cardinality({i \in DOMAIN last.ret.v :
                 last.ret.v[i] = [event_name |-> event_name, app_id |-> app_id,
                                  interval |-> 24]})

C12_Case(n(_, _)) ==
  (/\ last.op = "check_rule"
   /\ last.rule = "IntervalEventsRule"
   /\ last.data.gads.some /\ last.data.ga4.some)
  => \A app_id \in AppIdSet :
       \A event_name \in {r.event_name : r \in Rows(last.data.gads.v)} :
         (/\ C12_AdsRows(app_id, event_name) # {}
          /\ C12_Unobserved(app_id, event_name))
         => C12_Emitted(app_id, event_name) = n(app_id, event_name)

C12_One(app_id, event_name) == 1
C12_PerRow(app_id, event_name) == Cardinality(C12_AdsRows(app_id, event_name))

\* C12 as stated: for every (app_id, event_name) of a monitored app in the
\* ads table that no analytics row of the same uid covers within the one-day
\* lookback, check_rule emits exactly one IntervalEvent(event_name, app_id,
\* 24), however many ads rows carry the pair.
C12_ExactlyOnePerPair == C12_Case(C12_One)

\* C12 amended: for every such pair check_rule emits one
\* IntervalEvent(event_name, app_id, 24) for each ads row that carries the
\* pair: never zero, and as many as there are such rows.
C12_OnePerAdsRow == C12_Case(C12_PerRow)

C12_Witness ==
  /\ last.op = "check_rule"
  /\ last.rule = "IntervalEventsRule"
  /\ last.data.gads.some /\ last.data.ga4.some
  /\ Cardinality(C12_AdsRows(ANDROID_TEST_APP, "purchase")) = 2
  /\ C12_Unobserved(ANDROID_TEST_APP, "purchase")
  /\ C12_Emitted(ANDROID_TEST_APP, "purchase") = 2
  /\ C12_Unobserved(IOS_TEST_APP, "purchase")
  /\ C12_Emitted(IOS_TEST_APP, "purchase") = 1

\* ----------------------------------------------------------------- C13
\* a call of VersionEventsRule.check_rule on an ads and an analytics table
C13_VersionCall ==
  /\ last.op = "check_rule"
  /\ last.rule = "VersionEventsRule"
  /\ last.data.gads.some /\ last.data.ga4.some

\* the analytics rows of app_id: those whose uid an ads row of app_id has
C13_Observed(app_id) ==
  {r \in Rows(last.data.ga4.v) :
     \E g \in Rows(last.data.gads.v) : g.app_id = app_id /\ g.uid = r.uid}

C13_IsIos(app_id) ==
  \E r \in C13_Observed(app_id) : Lower(r.os) = "ios"

\* the highest valid analytics versions of app_id (none or one)
C13_Highest(app_id) ==
  LET valid == {r.app_version : r \in {x \in C13_Observed(app_id) :
                                         SemverParses(x.app_version)}}
  IN {v \in valid : \A w \in valid : ~VerLess(VersionOf(v), VersionOf(w))}

\* the rows of a marketplace table for app_id
C13_StoreRows(store, app_id) == {r \in Rows(store.v) : r.app_id = app_id}

\* time from the start of the day on which cur_ver was first observed to
\* the store's observation of its release
C13_Gap(app_id, cur_ver, row) ==
  LET days == {r.date_added : r \in {x \in C13_Observed(app_id) :
                                       x.app_version = cur_ver}}
  IN row.timestamp - (CHOOSE d \in days : \A e \in days : d <= e) * TicksPerDay

\* the violations of the result for app_id
C13_Emitted(app_id) ==
  SelectSeq(last.ret.v, LAMBDA e : e.app_id = app_id)

\* C13: for an iOS app with app-marketplace data whose store version is
\* greater than its highest valid analytics version cur_ver and whose
\* release gap exceeds 24 hours, check_rule emits exactly one violation for
\* the app, VersionEvent('first_open', app_id, store_version, cur_ver), and
\* no generic diff violation.
C13_StaleIosReleaseIsOneFirstOpen ==
  C13_VersionCall =>
    \A app_id \in AppIdSet :
      \A cur_ver \in C13_Highest(app_id) :
        \A row \in C13_StoreRows(last.data.app_store, app_id) :
          (/\ C13_IsIos(app_id)
           /\ SemverParses(row.version)
           /\ VerLess(VersionOf(cur_ver), VersionOf(row.version))
           /\ C13_Gap(app_id, cur_ver, row) > TicksPerDay)
          => C13_Emitted(app_id)
               = <<VersionEvent("first_open", app_id, row.version, cur_ver)>>

\* ----------------------------------------------------------------- C14
\* the highest valid analytics versions of app_id below cur_ver
C14_Previous(app_id, cur_ver) ==
  LET below == {r.app_version : r \in {x \in C13_Observed(app_id) :
                  /\ SemverParses(x.app_version)
                  /\ VerLess(VersionOf(x.app_version), VersionOf(cur_ver))}}
  IN {v \in below : \A w \in below : ~VerLess(VersionOf(v), VersionOf(w))}

C14_EventsUnder(app_id, version) ==
  {r.event_name : r \in {x \in C13_Observed(app_id) : x.app_version = version}}

\* the generic diff of app_id: the events seen under prev_ver and not under
\* cur_ver
C14_GenericDiff(app_id, cur_ver) ==
  UNION {{VersionEvent(n, app_id, cur_ver, prev_ver) :
            n \in C14_EventsUnder(app_id, prev_ver)
                    \ C14_EventsUnder(app_id, cur_ver)} :
         prev_ver \in C14_Previous(app_id, cur_ver)}

\* the marketplace row shows a release newer than cur_ver
C14_ReleaseDetected(app_id, cur_ver, row) ==
  IF C13_IsIos(app_id)
    THEN SemverParses(row.version)
         /\ VerLess(VersionOf(cur_ver), VersionOf(row.version))
    ELSE C13_Gap(app_id, cur_ver, row) > 0

C14_Store(app_id) ==
  IF C13_IsIos(app_id) THEN last.data.app_store ELSE last.data.play_store

\* C14: when a marketplace release newer than the analytics' current version
\* of an app is detected and the release gap is at most 24 hours, check_rule
\* emits no 'first_open' for the release and emits for that app the generic
\* diff violations between prev_ver and cur_ver.
C14_FreshReleaseFallsBackToDiff ==
  C13_VersionCall =>
    \A app_id \in AppIdSet :
      \A cur_ver \in C13_Highest(app_id) :
        \A row \in C13_StoreRows(C14_Store(app_id), app_id) :
          (/\ C14_ReleaseDetected(app_id, cur_ver, row)
           /\ C13_Gap(app_id, cur_ver, row) <= TicksPerDay)
          => Rows(C13_Emitted(app_id)) = C14_GenericDiff(app_id, cur_ver)

\* ----------------------------------------------------------------- C15
\* the generic diff of app_id, empty when app_id has no valid version
C15_Diff(app_id) ==
  UNION {C14_GenericDiff(app_id, cur_ver) : cur_ver \in C13_Highest(app_id)}

\* C15: when neither the app-marketplace nor the package-marketplace table
\* is passed, check_rule returns, for every monitored app with conversion
\* events, the generic diff violations of that app and nothing else for it,
\* so no 'first_open' of a marketplace release.
C15_NoStoresMeansGenericDiff ==
  (/\ C13_VersionCall
   /\ ~last.data.app_store.some
   /\ ~last.data.play_store.some)
  => /\ last.ret.raised = ""
     /\ \A app_id \in AppIdSet :
          C13_Observed(app_id) # {}
            => Rows(C13_Emitted(app_id)) = C15_Diff(app_id)

\* ----------------------------------------------------------------- C16
\* the event names the frame holds under version
C16_Under(version) ==
  {r.event_name : r \in {x \in Rows(last.df) : x.app_version = version}}

\* how often the result holds violation e
C16_Count(e) == Cardinality({i \in DOMAIN last.ret : last.ret[i] = e})

\* C16: the generic diff returns exactly one VersionEvent(event_name,
\* app_id, cur_ver, prev_ver) for each event name observed under prev_ver
\* and not under cur_ver, and nothing else.
C16_DiffIsPrevMinusCur ==
  last.op = "compare_events_between_versions" =>
    LET missing == C16_Under(last.prev_ver) \ C16_Under(last.cur_ver)
        e(n) == VersionEvent(n, last.df[1].app_id, last.cur_ver, last.prev_ver)
    IN /\ \A n \in missing : C16_Count(e(n)) = 1
       /\ \A i \in DOMAIN last.ret : \E n \in missing : last.ret[i] = e(n)

\* {purchase, first_open} under 1.0.0 and {first_open} under 1.1.0 give
\* only VersionEvent('purchase', app_id, '1.1.0', '1.0.0')
C16_Witness ==
  /\ last.op = "compare_events_between_versions"
  /\ last.cur_ver = V_1_1_0 /\ last.prev_ver = V_1_0_0
  /\ C16_Under(V_1_0_0) = {"purchase", "first_open"}
  /\ C16_Under(V_1_1_0) = {"first_open"}
  /\ last.ret = <<VersionEvent("purchase", ANDROID_TEST_APP, V_1_1_0, V_1_0_0)>>

\* ----------------------------------------------------------------- C17
\* C17: get_data reports a table absent only when it could not be fetched:
\* a table that exists with zero rows is passed on as a table, and
\* check_rule of the interval rule then takes an existing, empty analytics
\* table as 'no rows observed', so that every ads row of a monitored app is
\* a violation.
C17_EmptyTableIsNotMissing ==
  /\ last.op = "get_data" =>
       /\ last.data.gads.some = tbl[GADS_TABLE_NAME].exists
       /\ last.data.ga4.some = tbl[GA4_TABLE_NAME].exists
  /\ (/\ last.op = "check_rule"
      /\ last.rule = "IntervalEventsRule"
      /\ tbl[GA4_TABLE_NAME] = [exists |-> TRUE, rows |-> <<>>])
     => \A g \in Rows(tbl[GADS_TABLE_NAME].rows) :
          g.app_id \in AppIdSet
            => [event_name |-> g.event_name, app_id |-> g.app_id,
                interval |-> 24] \in Rows(last.ret.v)

\* ----------------------------------------------------------------- C18
\* the step is a call of orchestrator()
C18_Called == pc = "idle" /\ runs' = runs + 1

\* C18: a call of orchestrator() whose configuration cannot be loaded or
\* validated, or whose storage connection cannot be established, returns
\* False at once: no collector, rule or notification step has run and
\* nothing is written to storage; and a run whose preconditions are met
\* never returns False.
C18_PreconditionFailureReturnsFalse ==
  [][/\ (C18_Called /\ last'.pre # "ok")
          => /\ last'.ret = "False"
             /\ pc' = "idle"
             /\ trace' = <<>>
             /\ UNCHANGED <<runLog, alertsLog, tbl, outbox>>
     /\ (last'.op = "orchestrator" /\ last'.pre = "ok") => last'.ret # "False"
    ]_vars

\* ----------------------------------------------------------------- C19
\* the step is a call of check_rule on the tables of the call before it
C19_CalledAgain == last.op = "check_rule" /\ last'.op = "check_rule"

\* the rows of a marketplace table inside the seven-day lookback at moment t
C19_Recent(store, t) ==
  {r \in Rows(store.v) : r.timestamp >= t - STORE_LOOKBACK_DAYS * TicksPerDay}

\* the clock readings of the two calls give the rule the same view: the same
\* date for the interval rule, the same marketplace rows inside the lookback
\* for the version rule
C19_SameView(rule, data, t1, t2) ==
  IF rule = "IntervalEventsRule" THEN DateOf(t1) = DateOf(t2)
  ELSE /\ C19_Recent(data.app_store, t1) = C19_Recent(data.app_store, t2)
       /\ C19_Recent(data.play_store, t1) = C19_Recent(data.play_store, t2)

C19_SameResult(r1, r2) == r1.raised = r2.raised /\ Rows(r1.v) = Rows(r2.v)

\* C19 as stated: check_rule of either rule is a pure function of the tables
\* passed to it: two invocations with equal tables return the same set of
\* violations whatever the moments of invocation, and an invocation leaves
\* storage as it is.
C19_SameTablesSameViolations ==
  [][/\ C19_CalledAgain => C19_SameResult(last.ret, last'.ret)
     /\ last'.op = "check_rule" => UNCHANGED <<tbl, runLog, alertsLog>>
    ]_vars

\* C19 amended: check_rule is a function of the tables passed to it and of
\* the clock: two invocations with equal tables return the same set of
\* violations when they fall on the same date (interval rule) or see the
\* same marketplace rows inside the seven-day lookback (version rule), and
\* an invocation leaves storage as it is.
C19_SameTablesSameViewSameViolations ==
  [][/\ (C19_CalledAgain
         /\ C19_SameView(last.rule, last.data, last.at, last'.at))
          => C19_SameResult(last.ret, last'.ret)
     /\ last'.op = "check_rule" => UNCHANGED <<tbl, runLog, alertsLog>>
    ]_vars

\* two calls of the interval rule at different moments of one day returned
\* the same non-empty set of violations
C19_Witness ==
  /\ last.op = "check_rule"
  /\ last.rule = "IntervalEventsRule"
  /\ last.before.op = "check_rule"
  /\ last.before.at < last.at
  /\ DateOf(last.before.at) = DateOf(last.at)
  /\ last.ret.v # <<>>
  /\ \E g \in Rows(last.data.gads.v) :
       /\ g.app_id \in AppIdSet
       /\ [event_name |-> g.event_name, app_id |-> g.app_id, interval |-> 24]
            \notin Rows(last.ret.v)
  /\ C19_SameResult(last.before.ret, last.ret)

\* ----------------------------------------------------------------- C20
C20_IntervalCall ==
  /\ last.op = "check_rule"
  /\ last.rule = "IntervalEventsRule"

\* an analytics row with the uid of ads row g was added yesterday or today
C20_ObservedInWindow(g) ==
  \E r \in Rows(last.data.ga4.v) :
    r.uid = g.uid /\ r.date_added >= DateOf(last.at) - 1

\* C20: every IntervalEvent that IntervalEventsRule.check_rule emits has
\* interval 24, belongs to an app of the monitored app_ids, and refers to an
\* ads row whose uid has no analytics row with date_added on or after
\* yesterday: no violation for an unmonitored app or for an event observed
\* inside the window.
C20_ViolationsAreMonitoredAndUnobserved ==
  C20_IntervalCall =>
    \A e \in Rows(last.ret.v) :
      /\ e.interval = 24
      /\ e.app_id \in AppIdSet
      /\ \E g \in Rows(last.data.gads.v) :
           /\ g.app_id = e.app_id
           /\ g.event_name = e.event_name
           /\ ~C20_ObservedInWindow(g)

\* a call that emitted a violation, left out a monitored event observed
\* inside the window, and left out the row of an unmonitored app
C20_Witness ==
  /\ C20_IntervalCall
  /\ [event_name |-> "purchase", app_id |-> IOS_TEST_APP, interval |-> 24]
       \in Rows(last.ret.v)
  /\ \E g \in Rows(last.data.gads.v) :
       /\ g.app_id = ANDROID_TEST_APP
       /\ C20_ObservedInWindow(g)
       /\ \A e \in Rows(last.ret.v) :
            ~(e.app_id = g.app_id /\ e.event_name = g.event_name)
  /\ \E g \in Rows(last.data.gads.v) : g.app_id = OTHER_APP
  /\ \A e \in Rows(last.ret.v) : e.app_id # OTHER_APP

\* ----------------------------------------------------------------- C21
\* C21: when the marketplace table of an app's platform holds a row for the
\* app and that row shows no release newer than cur_ver (store version not
\* greater than cur_ver for iOS, store timestamp not later than the first
\* analytics observation of cur_ver otherwise), check_rule emits for that
\* app the generic diff violations between prev_ver and cur_ver.
C21_NoReleaseStillRunsDiff ==
  C13_VersionCall =>
    \A app_id \in AppIdSet :
      \A cur_ver \in C13_Highest(app_id) :
        \A row \in C13_StoreRows(C14_Store(app_id), app_id) :
          ~C14_ReleaseDetected(app_id, cur_ver, row)
            => Rows(C13_Emitted(app_id)) = C14_GenericDiff(app_id, cur_ver)

\* ----------------------------------------------------------------- C22
\* C22: for an app that is not an iOS app and has a package-marketplace row,
\* check_rule emits VersionEvent('first_open', app_id, store_version_code,
\* cur_ver) if and only if the timestamp of the row is more than 24 hours
\* later than the earliest date_added of cur_ver in the app's conversion
\* events.
C22_PlayStoreFirstOpenIffStale ==
  C13_VersionCall =>
    \A app_id \in AppIdSet :
      \A cur_ver \in C13_Highest(app_id) :
        \A row \in C13_StoreRows(last.data.play_store, app_id) :
          ~C13_IsIos(app_id)
            => (VersionEvent("first_open", app_id, row.version, cur_ver)
                  \in Rows(last.ret.v)
                <=> C13_Gap(app_id, cur_ver, row) > TicksPerDay)

\* ----------------------------------------------------------------- C29
\* the apps check_rule evaluates: those with conversion events
C29_Evaluated ==
  {g.app_id : g \in {x \in Rows(last.data.gads.v) : C13_Observed(x.app_id) # {}}}

\* the marketplace rows inside the seven-day lookback of the call
C29_RecentStore(app_id) == C19_Recent(C14_Store(app_id), last.at)

\* C29: when the marketplace table selected for an app's platform holds
\* recent rows but none for that app, check_rule does not raise: the app is
\* evaluated with the generic diff, as an app without marketplace data, and
\* the other apps are evaluated too.
C29_AppWithoutStoreRowGetsDiff ==
  C13_VersionCall =>
    \A app_id \in C29_Evaluated :
      (/\ C29_RecentStore(app_id) # {}
       /\ \A r \in C29_RecentStore(app_id) : r.app_id # app_id)
      => /\ last.ret.raised = ""
         /\ Rows(C13_Emitted(app_id)) = C15_Diff(app_id)

\* ----------------------------------------------------------------- C23
\* the rows write_alerts appends for the alerts a run created
C23_AlertRows(e) == MapToRow(e.alerts)

\* alertsLog' ends with rows
C23_EndsWith(log, rows) ==
  /\ Len(log) >= Len(rows)
  /\ SubSeq(log, Len(log) - Len(rows) + 1, Len(log)) = rows

\* C23: run() does get_data, check_rule, create_alerts, update_alerts_log and
\* update_last_run in this order: whenever a run appends its marker, all
\* alerts of that run are already in the alert log, and when fetching the
\* tables or persisting the alerts raises, the exception reaches the caller
\* and the run appends no marker.
C23_MarkerAfterAlerts ==
  [][C5_RuleStep =>
       LET e == trace'[Len(trace')] IN
       /\ runLog' # runLog
            => /\ runLog' = Append(runLog, [name |-> e.name, type |-> "rule",
                                            timestamp |-> now])
               /\ e.fetched /\ e.checkExc = ""
               /\ e.ret \in {"True", "False"}
               /\ C23_EndsWith(alertsLog', C23_AlertRows(e))
               /\ Len(alertsLog') = Len(alertsLog) + Len(e.alerts)
       /\ (~e.fetched \/ e.ret = "ClientError")
            => e.raised /\ runLog' = runLog
    ]_vars

\* a run wrote its alerts and then its marker; an earlier call failed to
\* persist its alerts and left no marker
C23_Witness ==
  /\ Len(trace) = 2
  /\ trace[1].kind = "rule" /\ trace[1].ret = "ClientError" /\ trace[1].raised
  /\ trace[2].kind = "rule" /\ trace[2].alerts # <<>> /\ trace[2].ret = "True"
  /\ ~trace[2].raised
  /\ Len(runLog) = 1
  /\ runLog[1] = [name |-> trace[2].name, type |-> "rule",
                  timestamp |-> trace[2].at]
  /\ C23_EndsWith(alertsLog, C23_AlertRows(trace[2]))


\* ---------------------------------------------------------------- C24
C24_IsPrefix(a, b) == Len(a) <= Len(b) /\ SubSeq(b, 1, Len(a)) = a

C24_Count(log, id) == Cardinality({i \in DOMAIN log : log[i].alert_id = id})

C24_Ids(e) == {e.alerts[i].alert_id : i \in DOMAIN e.alerts}

C24_Reported(e, id) == Cardinality({i \in DOMAIN e.alerts : e.alerts[i].alert_id = id})

\* a rule run that persisted its alerts
C24_Logged == C5_RuleStep /\ trace'[Len(trace')].ret = "True"

C24_LogsOnlyGrow ==
  /\ C24_IsPrefix(runLog, runLog') /\ C24_IsPrefix(alertsLog, alertsLog')
  /\ Len(runLog') <= Len(runLog) + 1

\* C24 as stated: the alert log and the run log are append-only over rule
\* runs, collector saves and notification steps (no row is removed or
\* changed, a marker write adds exactly one row), and every run in which a
\* violation is reported leaves one more alert row with its alert_id, so n
\* runs leave n rows.
C24_OneRowPerRun ==
  [][/\ C24_LogsOnlyGrow
     /\ C24_Logged =>
          \A id \in C24_Ids(trace'[Len(trace')]) :
            C24_Count(alertsLog', id) = C24_Count(alertsLog, id) + 1
    ]_vars

\* C24, amended: the logs are append-only as above, and every run that
\* persists its alerts leaves one more row per violation it reports, next
\* to the rows of earlier runs: n runs leave at least n rows with the
\* alert_id, and more when a run reports the violation more than once.
C24_OneRowPerReportedViolation ==
  [][/\ C24_LogsOnlyGrow
     /\ C24_Logged =>
          \A id \in C24_Ids(trace'[Len(trace')]) :
            /\ C24_Reported(trace'[Len(trace')], id) >= 1
            /\ C24_Count(alertsLog', id)
                 = C24_Count(alertsLog, id) + C24_Reported(trace'[Len(trace')], id)
    ]_vars

\* the second orchestrator run of a process has reported, twice, a violation
\* that the first run reported too, and the log holds all the rows
C24_Witness ==
  /\ runs = 2
  /\ trace # <<>>
  /\ LET e == trace[Len(trace)] IN
       /\ e.kind = "rule" /\ e.ret = "True"
       /\ \E id \in C24_Ids(e) :
            /\ C24_Reported(e, id) = 2
            /\ C24_Count(alertsLog, id) = 4


\* ---------------------------------------------------------------- C25
C25_Accumulating == TableNames \ {GADS_TABLE_NAME}

C25_CollectorStep ==
  Len(trace') = Len(trace) + 1 /\ trace'[Len(trace')].kind = "collector"

\* C25: the analytics rows accumulate: whatever the order of the configured
\* collectors, a step of an orchestrator run keeps every row that earlier
\* runs stored in the analytics and marketplace tables and only appends to
\* them; the ads table alone is replaced.
C25_AnalyticsRowsAccumulate ==
  [][\A n \in C25_Accumulating :
       tbl[n].exists => /\ tbl'[n].exists
                        /\ C24_IsPrefix(tbl[n].rows, tbl'[n].rows)
    ]_vars


\* ---------------------------------------------------------------- C26
\* the rows of app_id that lie inside the lookback window
C26_InWindow(apps_data, time_period, app_id) ==
  {r \in Rows(apps_data) : r.app_id = app_id /\ r.timestamp >= time_period}

C26_Of(rows, app_id) == SelectSeq(rows, LAMBDA r : r.app_id = app_id)

C26_Apps == {IOS_TEST_APP, OTHER_APP}

C27_NotifyStep ==
  Len(trace') = Len(trace) + 1 /\ trace'[Len(trace')].kind = "notify"

\* the Gmail API call of the step failed
C27_TransportFailed == trace'[Len(trace')].out \in {"http_error", "send_raise"}

\* C27: the 'email sent' marker is appended only when the notification was
\* actually delivered: a handle_alerts step that appends an
\* ('Email', 'service-<app_id>') marker has delivered its message, and a
\* step whose mail transport failed appends no marker.
C27_MarkerOnlyWhenDelivered ==
  [][C27_NotifyStep
       => /\ runLog' # runLog
               => /\ Len(outbox') = Len(outbox) + 1
                  /\ outbox'[Len(outbox')].delivered
          /\ C27_TransportFailed => runLog' = runLog
    ]_vars


\* ---------------------------------------------------------------- C28
\* the 'email sent' markers of an app
C28_Markers(app_id) ==
  {j \in DOMAIN runLog : /\ runLog[j].name = "Email"
                         /\ runLog[j].type = ServiceType(app_id)}

\* C28: every Alert built by create_alerts carries the time of its own
\* creation: the alerts of a rule run have a timestamp that is not earlier
\* than the start of the run (the clock stands still during a run, so the
\* start is the moment of the step), and therefore not earlier than any
\* 'email sent' marker already in the run log, so that they fall in the next
\* notification window; this holds for every run of a process.
C28_AlertsCarryCreationTime ==
  [][C5_RuleStep =>
       LET e == trace'[Len(trace')] IN
       \A i \in DOMAIN e.alerts :
         /\ e.alerts[i].timestamp >= now
         /\ \A j \in C28_Markers(e.alerts[i].app_id) :
              e.alerts[i].timestamp >= FloorSec(runLog[j].timestamp)
    ]_vars


\* ---------------------------------------------------------------- C30
\* C30: alert_id is injective per rule: two violations of one rule that
\* differ in app_id, event_name, interval or a version field never get the
\* same alert_id from create_alerts, also when ids and names contain '_'.
C30_AlertIdInjective ==
  last.op = "create_alerts" =>
    \A i, j \in DOMAIN last.ret :
      last.rule_violations[i] # last.rule_violations[j]
        => last.ret[i].alert_id # last.ret[j].alert_id

====
